---- MODULE Spec2Model ----
(***************************************************************************)
(* A model of the resolution pipeline of spring-profile-resolver:          *)
(* deep merge with source tracking (merger.py), profile group expansion    *)
(* (profiles.py), merge ordering and orchestration (resolver.py) and       *)
(* placeholder resolution (placeholders.py, env_vars.py,                   *)
(* vcap_services.py).                                                      *)
(*                                                                         *)
(* Python strings are sequences of one-character strings, so that the      *)
(* string operations of the code (joining a path with ".", startswith,     *)
(* upper, the placeholder regular expression) are computed, not assumed.   *)
(* A configuration value is a record [t, v] with t the Python type:        *)
(*   "str" (v a character sequence), "int" (v a number), "null",           *)
(*   "list" (v a sequence of values), "map" (v a function from keys, which *)
(*   are character sequences, to values).                                  *)
(***************************************************************************)
EXTENDS Integers, Sequences, FiniteSets, TLC

VARIABLES
    mdocs,       \* merge_configs: the documents argument
    mpc,         \* merge_configs: "input" while the list is built, "merged" after the call
    mresult,     \* merge_configs: the merged tree returned
    msources,    \* merge_configs: the sources map returned (path -> source file)
    erequested,  \* expand_profiles: the requested argument
    egroups,     \* expand_profiles: the groups argument (group name -> members)
    eout,        \* expand_profiles: its outcome, [kind, value]: "none" before the call,
                 \* "returned" with the list, "raised" with the error's cycle_path
    sdocs,       \* _sort_documents_for_merge: the documents argument
    sprofiles,   \* _sort_documents_for_merge: the profiles argument
    spc,         \* "input", then "sorted" once sorted and merged
    ssorted,     \* the list _sort_documents_for_merge returns
    smerged,     \* <<tree, sources>> merge_configs returns for the sorted list
    pconfig,     \* resolve_placeholders: the config argument
    penv_vars,   \* resolve_placeholders: the env_vars argument (NullV for None)
    penviron,    \* os.environ (variable name -> text)
    puse_system_env,          \* resolve_placeholders: the use_system_env argument
    pvcap_services_json,      \* resolve_placeholders: vcap_services_json (NullV for None)
    pvcap_application_json,   \* resolve_placeholders: vcap_application_json
    ppc,         \* resolve_placeholders: "called", "passes" (in the loop), "done"
    presult,     \* resolve_placeholders: the local result
    pwarnings,   \* resolve_placeholders: the local warnings
    pvcap_config,  \* resolve_placeholders: the local vcap_config
    piter,       \* resolve_placeholders: the passes made by the loop
    pchanged,    \* resolve_placeholders: changed, of the last pass
    rfiles,      \* the files of the project (path -> file)
    rprofiles,   \* resolve_profiles: the profiles argument
    rinclude_test,  \* resolve_profiles: the include_test argument
    rpc,         \* resolve_profiles: the step it is at, "returned" or "raised" at its end
    rloaded,     \* resolve_profiles: all_documents, warnings, errors and loaded_files
    rexpansion,  \* resolve_profiles: what expand_profiles(profiles, groups) left
    rexpanded_profiles,  \* resolve_profiles: the local expanded_profiles
    rsorted_docs,  \* resolve_profiles: the local sorted_docs
    rmerged,     \* resolve_profiles: <<merged_config, sources>>
    routcome,    \* resolve_profiles: the ResolverResult returned, or the exception raised
    xtokens,     \* the tokens the caller writes the profile expression with
    xexpression, \* parse_profile_expression, evaluate_profile_expression: expression
    xactive,     \* evaluate_profile_expression: the active_profiles argument
    xpc,         \* "input" while the expression is written, "parsed", "evaluated"
    xparsed,     \* what parse_profile_expression(expression) left
    xevaluated,  \* what evaluate_profile_expression(expression, active_profiles) left
    xstr,        \* str(expr) of the parsed expression
    xreparsed,   \* what parse_profile_expression(str(expr)) left
    xmatched     \* what ConfigDocument.matches_profiles(active_profiles) left

mergeVars == <<mdocs, mpc, mresult, msources>>
expandVars == <<erequested, egroups, eout>>
sortVars == <<sdocs, sprofiles, spc, ssorted, smerged>>

placeholderVars == <<pconfig, penv_vars, penviron, puse_system_env, pvcap_services_json,
                     pvcap_application_json, ppc, presult, pwarnings, pvcap_config,
                     piter, pchanged>>

resolverVars == <<rfiles, rprofiles, rinclude_test, rpc, rloaded, rexpansion,
                  rexpanded_profiles, rsorted_docs, rmerged, routcome>>

expressionVars == <<xtokens, xexpression, xactive, xpc, xparsed, xevaluated, xstr,
                    xreparsed, xmatched>>

vars == <<mergeVars, expandVars, sortVars, placeholderVars, resolverVars, expressionVars>>

\* the variables of the other components, which a component's steps leave alone
notMergeVars == <<expandVars, sortVars, placeholderVars, resolverVars, expressionVars>>
notExpandVars == <<mergeVars, sortVars, placeholderVars, resolverVars, expressionVars>>
notSortVars == <<mergeVars, expandVars, placeholderVars, resolverVars, expressionVars>>
notPlaceholderVars == <<mergeVars, expandVars, sortVars, resolverVars, expressionVars>>
notResolverVars == <<mergeVars, expandVars, sortVars, placeholderVars, expressionVars>>
notExpressionVars == <<mergeVars, expandVars, sortVars, placeholderVars, resolverVars>>

-----------------------------------------------------------------------------
(* Values *)

StrV(s) == [t |-> "str", v |-> s]
IntV(n) == [t |-> "int", v |-> n]
NullV == [t |-> "null", v |-> 0]
ListV(l) == [t |-> "list", v |-> l]
MapV(f) == [t |-> "map", v |-> f]
EmptyFn == <<>>

IsNone(x) == x.t = "null"
IsDict(x) == x.t = "map"
IsList(x) == x.t = "list"

\* d[k] = val
Put(f, k, val) == [x \in (DOMAIN f) \cup {k} |-> IF x = k THEN val ELSE f[x]]

\* del d[k] for every k of ks
Drop(f, ks) == [x \in (DOMAIN f) \ ks |-> f[x]]

\* str.startswith
StartsWith(s, prefix) ==
    /\ Len(prefix) <= Len(s)
    /\ SubSeq(s, 1, Len(prefix)) = prefix

\* a function and a sequence with their values computed (TLC keeps the
\* constructor [x \in S |-> e] unevaluated until the function is applied)
Computed(f) == f @@ <<>>
ComputedSeq(s) == <<>> \o s

\* f"{prefix}.{key}" if prefix else key
JoinPath(prefix, key) == IF prefix = <<>> THEN key ELSE prefix \o <<".">> \o key

\* The keys of a mapping as the sequence in which a loop visits them
RECURSIVE KeySeq(_)
KeySeq(ks) ==
    IF ks = {} THEN <<>>
    ELSE LET k == CHOOSE x \in ks : TRUE
         IN <<k>> \o KeySeq(ks \ {k})


-----------------------------------------------------------------------------
(* Strings and pathlib paths, as character sequences *)

UPPERCASE == <<"A", "B", "C", "D", "E", "F", "G", "H", "I", "J", "K", "L", "M",
               "N", "O", "P", "Q", "R", "S", "T", "U", "V", "W", "X", "Y", "Z">>
LOWERCASE == <<"a", "b", "c", "d", "e", "f", "g", "h", "i", "j", "k", "l", "m",
               "n", "o", "p", "q", "r", "s", "t", "u", "v", "w", "x", "y", "z">>

\* str.lower
Lower(s) ==
    [i \in 1..Len(s) |->
        IF \E n \in 1..Len(UPPERCASE) : UPPERCASE[n] = s[i]
        THEN LOWERCASE[CHOOSE n \in 1..Len(UPPERCASE) : UPPERCASE[n] = s[i]]
        ELSE s[i]]

\* str.upper
Upper(s) ==
    [i \in 1..Len(s) |->
        IF \E n \in 1..Len(LOWERCASE) : LOWERCASE[n] = s[i]
        THEN UPPERCASE[CHOOSE n \in 1..Len(LOWERCASE) : LOWERCASE[n] = s[i]]
        ELSE s[i]]

\* str.replace(old, new) for a one-character old
ReplaceChar(s, old, new) == [i \in 1..Len(s) |-> IF s[i] = old THEN new ELSE s[i]]

\* str.rfind(c) + 1: the last position of the character c in s, 0 if there is none
LastIndexOf(s, c) ==
    IF \E i \in 1..Len(s) : s[i] = c
    THEN CHOOSE i \in 1..Len(s) : s[i] = c /\ \A j \in (i + 1)..Len(s) : s[j] # c
    ELSE 0

\* Path.name: the final component
PathName(p) == SubSeq(p, LastIndexOf(p, "/") + 1, Len(p))

\* Path.suffix: from the last dot of the name, unless the dot starts or ends it
PathSuffix(p) ==
    LET name == PathName(p)
        i == LastIndexOf(name, ".")
    IN IF 1 < i /\ i < Len(name) THEN SubSeq(name, i, Len(name)) ELSE <<>>

\* Path.stem: the name without its suffix
PathStem(p) ==
    LET name == PathName(p)
        i == LastIndexOf(name, ".")
    IN IF 1 < i /\ i < Len(name) THEN SubSeq(name, 1, i - 1) ELSE name

\* resource_dir / name
PathJoin(dir, name) == dir \o <<"/">> \o name

-----------------------------------------------------------------------------
(* merger.py *)

\* _track_sources(value, path, source, sources): the sources map afterwards
RECURSIVE TrackSources(_, _, _, _)
RECURSIVE TrackSourcesItems(_, _, _, _, _)
TrackSources(value, path, source, sources) ==
    IF IsDict(value)
    THEN TrackSourcesItems(value.v, KeySeq(DOMAIN value.v), path, source, sources)
    ELSE IF IsList(value)
    THEN Put(sources, path, source)
    ELSE Put(sources, path, source)

\* the loop "for k, v in value.items()" of _track_sources
TrackSourcesItems(items, ks, path, source, sources) ==
    IF ks = <<>> THEN sources
    ELSE LET k == Head(ks)
             child_path == JoinPath(path, k)
         IN TrackSourcesItems(items, Tail(ks), path, source,
                              TrackSources(items[k], child_path, source, sources))

\* _remove_sources_under_path mutated to match the bare prefix (no "." appended)
RemoveSourcesBarePrefix(path, sources) ==
    Drop(sources, {k \in DOMAIN sources : StartsWith(k, path)})

\* _remove_sources_under_path mutated to remove the entry of the path only, not
\* the entries of its descendants
RemoveSourcesExactPath(path, sources) ==
    Drop(sources, {k \in DOMAIN sources : k = path})

\* _remove_sources_under_path(path, sources): the sources map afterwards
RemoveSourcesUnderPath(path, sources) ==
    LET prefix == path \o <<".">>
        keys_to_remove == {k \in DOMAIN sources : k = path \/ StartsWith(k, prefix)}
    IN Drop(sources, keys_to_remove)

\* deep_merge(base, override, base_sources, override_source, path_prefix):
\* <<merged mapping, sources>>; base and override are the dicts (functions)
RECURSIVE DeepMerge(_, _, _, _, _)
RECURSIVE DeepMergeItems(_, _, _, _, _, _)
RECURSIVE DeepMergeItemsShallow(_, _, _, _, _, _)
RECURSIVE DeepMergeItemsExtendLists(_, _, _, _, _, _)
DeepMerge(base, override, base_sources, override_source, path_prefix) ==
    DeepMergeItems(base, base_sources, override, KeySeq(DOMAIN override),
                   override_source, path_prefix)

\* the loop of deep_merge mutated to a shallow merge: a key present on both sides
\* is always replaced, also when both values are mappings
DeepMergeItemsShallow(result, sources, override, ks, override_source, path_prefix) ==
    IF ks = <<>> THEN <<result, sources>>
    ELSE
      LET key == Head(ks)
          override_value == override[key]
          current_path == JoinPath(path_prefix, key)
          step ==
            IF key \notin DOMAIN result
            THEN <<Put(result, key, override_value),
                   TrackSources(override_value, current_path, override_source, sources)>>
            ELSE <<Put(result, key, override_value),
                   TrackSources(override_value, current_path, override_source,
                                RemoveSourcesUnderPath(current_path, sources))>>
      IN DeepMergeItemsShallow(step[1], step[2], override, Tail(ks), override_source,
                               path_prefix)

\* the loop of deep_merge mutated to merge sequences element-wise: a sequence
\* set over a sequence is appended to it
DeepMergeItemsExtendLists(result, sources, override, ks, override_source, path_prefix) ==
    IF ks = <<>> THEN <<result, sources>>
    ELSE
      LET key == Head(ks)
          override_value == override[key]
          current_path == JoinPath(path_prefix, key)
          step ==
            IF key \notin DOMAIN result
            THEN <<Put(result, key, override_value),
                   TrackSources(override_value, current_path, override_source, sources)>>
            ELSE IF IsDict(result[key]) /\ IsDict(override_value)
            THEN LET sub == DeepMerge(result[key].v, override_value.v, sources,
                                      override_source, current_path)
                 IN <<Put(result, key, MapV(sub[1])), sub[2]>>
            ELSE IF IsList(result[key]) /\ IsList(override_value)
            THEN <<Put(result, key, ListV(result[key].v \o override_value.v)),
                   TrackSources(override_value, current_path, override_source,
                                RemoveSourcesUnderPath(current_path, sources))>>
            ELSE <<Put(result, key, override_value),
                   TrackSources(override_value, current_path, override_source,
                                RemoveSourcesUnderPath(current_path, sources))>>
      IN DeepMergeItemsExtendLists(step[1], step[2], override, Tail(ks), override_source,
                                   path_prefix)

\* the loop "for key, override_value in override.items()" of deep_merge, with
\* result and sources as they stand before the keys ks are visited
DeepMergeItems(result, sources, override, ks, override_source, path_prefix) ==
    IF ks = <<>> THEN <<result, sources>>
    ELSE
      LET key == Head(ks)
          override_value == override[key]
          current_path == JoinPath(path_prefix, key)
          step ==
            IF key \notin DOMAIN result
            THEN <<Put(result, key, override_value),
                   TrackSources(override_value, current_path, override_source, sources)>>
            ELSE IF IsDict(result[key]) /\ IsDict(override_value)
            THEN LET sub == DeepMerge(result[key].v, override_value.v, sources,
                                      override_source, current_path)
                 IN <<Put(result, key, MapV(sub[1])), sub[2]>>
            ELSE <<Put(result, key, override_value),
                   TrackSources(override_value, current_path, override_source,
                                RemoveSourcesUnderPath(current_path, sources))>>
      IN DeepMergeItems(step[1], step[2], override, Tail(ks), override_source, path_prefix)

\* the loop "for doc in documents[1:]" of merge_configs
RECURSIVE MergeRemaining(_, _, _, _)
MergeRemaining(documents, i, result, sources) ==
    IF i > Len(documents) THEN <<result, sources>>
    ELSE LET doc == documents[i]
             m == DeepMerge(result, doc.content.v, sources, doc.source_file, <<>>)
         IN \* the pair is computed before the next document is merged into it
            IF Len(m) = 2 THEN MergeRemaining(documents, i + 1, m[1], m[2])
            ELSE <<result, sources>>

\* merge_configs(documents): <<merged mapping, sources>>
MergeConfigs(documents) ==
    IF documents = <<>> THEN <<EmptyFn, EmptyFn>>
    ELSE LET result == documents[1].content.v
             first_source == documents[1].source_file
             sources == TrackSources(MapV(result), <<>>, first_source, EmptyFn)
         IN MergeRemaining(documents, 2, result, sources)

-----------------------------------------------------------------------------
(* profiles.py: expand_profiles *)

\* "x in lst" for a list
InList(x, lst) == \E i \in 1..Len(lst) : lst[i] = x

\* The locals of expand_profiles as the recursion threads them: result, seen, and
\* the CircularProfileGroupError in flight (raised, cycle_path)
ExpandStart == [result |-> <<>>, seen |-> {}, raised |-> FALSE, cycle_path |-> <<>>]

RECURSIVE ExpandSingle(_, _, _, _)
RECURSIVE ExpandMembers(_, _, _, _, _)
RECURSIVE ExpandSingleNoPathCheck(_, _, _, _)

\* expand_single mutated to lose the cycle check (a seen profile is skipped)
ExpandSingleNoPathCheck(profile, path, st, groups) ==
    IF st.raised THEN st
    ELSE IF profile \in st.seen THEN st
    ELSE LET st1 == [st EXCEPT !.seen = @ \cup {profile}, !.result = Append(@, profile)]
         IN IF profile \in DOMAIN groups
            THEN ExpandMembers(groups[profile], 1, Append(path, profile), st1, groups)
            ELSE st1

\* expand_single mutated to emit a group after its members (post-order)
RECURSIVE ExpandSingleMembersFirst(_, _, _, _)
ExpandSingleMembersFirst(profile, path, st, groups) ==
    IF st.raised THEN st
    ELSE IF InList(profile, path)
    THEN [st EXCEPT !.raised = TRUE, !.cycle_path = Append(path, profile)]
    ELSE IF profile \in st.seen THEN st
    ELSE LET st1 == [st EXCEPT !.seen = @ \cup {profile}]
             st2 == IF profile \in DOMAIN groups
                    THEN ExpandMembers(groups[profile], 1, Append(path, profile), st1, groups)
                    ELSE st1
         IN IF st2.raised THEN st2 ELSE [st2 EXCEPT !.result = Append(@, profile)]

\* expand_single mutated to emit a profile every time it is reached
RECURSIVE ExpandSingleNoSeenCheck(_, _, _, _)
ExpandSingleNoSeenCheck(profile, path, st, groups) ==
    IF st.raised THEN st
    ELSE IF InList(profile, path)
    THEN [st EXCEPT !.raised = TRUE, !.cycle_path = Append(path, profile)]
    ELSE LET st1 == [st EXCEPT !.seen = @ \cup {profile}, !.result = Append(@, profile)]
         IN IF profile \in DOMAIN groups
            THEN ExpandMembers(groups[profile], 1, Append(path, profile), st1, groups)
            ELSE st1

\* expand_single mutated to skip a seen profile before it looks at the path
RECURSIVE ExpandSingleSeenFirst(_, _, _, _)
ExpandSingleSeenFirst(profile, path, st, groups) ==
    IF st.raised THEN st
    ELSE IF profile \in st.seen THEN st
    ELSE IF InList(profile, path)
    THEN [st EXCEPT !.raised = TRUE, !.cycle_path = Append(path, profile)]
    ELSE LET st1 == [st EXCEPT !.seen = @ \cup {profile}, !.result = Append(@, profile)]
         IN IF profile \in DOMAIN groups
            THEN ExpandMembers(groups[profile], 1, Append(path, profile), st1, groups)
            ELSE st1

\* expand_single(profile, path) with the closure's result and seen in st
ExpandSingle(profile, path, st, groups) ==
    IF st.raised THEN st
    ELSE IF InList(profile, path)
    THEN [st EXCEPT !.raised = TRUE, !.cycle_path = Append(path, profile)]
    ELSE IF profile \in st.seen THEN st
    ELSE LET st1 == [st EXCEPT !.seen = @ \cup {profile}, !.result = Append(@, profile)]
         IN IF profile \in DOMAIN groups
            THEN ExpandMembers(groups[profile], 1, Append(path, profile), st1, groups)
            ELSE st1

\* the loop "for member in groups[profile]" of expand_single, from member i on;
\* path is already path + [profile]
ExpandMembers(members, i, path, st, groups) ==
    IF i > Len(members) \/ st.raised THEN st
    ELSE ExpandMembers(members, i + 1, path,
                       ExpandSingle(members[i], path, st, groups), groups)

\* the loop "for profile in requested" of expand_profiles
RECURSIVE ExpandRequested(_, _, _, _)
ExpandRequested(requested, i, st, groups) ==
    IF i > Len(requested) \/ st.raised THEN st
    ELSE ExpandRequested(requested, i + 1,
                         ExpandSingle(requested[i], <<>>, st, groups), groups)

\* expand_profiles(requested, groups): [kind |-> "returned", value |-> the list] or
\* [kind |-> "raised", value |-> cycle_path of the CircularProfileGroupError]
ExpandProfiles(requested, groups) ==
    LET st == ExpandRequested(requested, 1, ExpandStart, groups)
    IN IF st.raised THEN [kind |-> "raised", value |-> st.cycle_path]
       ELSE [kind |-> "returned", value |-> st.result]


-----------------------------------------------------------------------------
(* parser.py and resolver.py: the order of the documents for the merge *)

APPLICATION == <<"a", "p", "p", "l", "i", "c", "a", "t", "i", "o", "n">>
PROPERTIES_SUFFIX == <<".", "p", "r", "o", "p", "e", "r", "t", "i", "e", "s">>

\* ConfigDocument(content, source_file, activation_profile, document_index)
ConfigDocument(content, source_file, activation_profile, document_index) ==
    [content |-> content, source_file |-> source_file,
     activation_profile |-> activation_profile, document_index |-> document_index]

\* get_profile_from_filename(path): StrV(profile), or NullV for None
GetProfileFromFilename(path) ==
    LET stem == PathStem(path)
    IN IF stem = APPLICATION THEN NullV
       ELSE IF StartsWith(stem, APPLICATION \o <<"-">>)
       THEN StrV(SubSeq(stem, Len(APPLICATION \o <<"-">>) + 1, Len(stem)))
       ELSE NullV

\* the profile_order of a file whose profile is not in the list
UNLISTED_PROFILE_ORDER == 999

\* profiles.index(file_profile), or 999 on ValueError
ProfileOrder(profiles, file_profile) ==
    IF InList(file_profile, profiles)
    THEN (CHOOSE i \in 1..Len(profiles) :
            profiles[i] = file_profile /\ \A j \in 1..(i - 1) : profiles[j] # file_profile) - 1
    ELSE UNLISTED_PROFILE_ORDER

\* sort_key that leaves the place of the profile in the list out of the key
SortKeyNoProfileOrder(doc, profiles, test_dirs) ==
    LET is_test == \E i \in 1..Len(test_dirs) : StartsWith(doc.source_file, test_dirs[i])
        file_profile == GetProfileFromFilename(doc.source_file)
        suffix == Lower(PathSuffix(doc.source_file))
    IN <<IF is_test THEN 1 ELSE 0, IF IsNone(file_profile) THEN 0 ELSE 1, 0,
         IF suffix = PROPERTIES_SUFFIX THEN 1 ELSE 0, doc.document_index>>

\* sort_key that leaves the location (main or test resources) out of the key
SortKeyNoLocation(doc, profiles, test_dirs) ==
    LET file_profile == GetProfileFromFilename(doc.source_file)
        suffix == Lower(PathSuffix(doc.source_file))
    IN <<0, IF IsNone(file_profile) THEN 0 ELSE 1,
         IF IsNone(file_profile) THEN 0 ELSE ProfileOrder(profiles, file_profile.v),
         IF suffix = PROPERTIES_SUFFIX THEN 1 ELSE 0, doc.document_index>>

\* sort_key that leaves out of the key whether the file is a base file or a
\* profile-specific one
SortKeyNoFileOrder(doc, profiles, test_dirs) ==
    LET is_test == \E i \in 1..Len(test_dirs) : StartsWith(doc.source_file, test_dirs[i])
        file_profile == GetProfileFromFilename(doc.source_file)
        suffix == Lower(PathSuffix(doc.source_file))
    IN <<IF is_test THEN 1 ELSE 0, 0,
         IF IsNone(file_profile) THEN 0 ELSE ProfileOrder(profiles, file_profile.v),
         IF suffix = PROPERTIES_SUFFIX THEN 1 ELSE 0, doc.document_index>>

\* sort_key that leaves the extension of the file out of the key
SortKeyNoExtension(doc, profiles, test_dirs) ==
    LET is_test == \E i \in 1..Len(test_dirs) : StartsWith(doc.source_file, test_dirs[i])
        file_profile == GetProfileFromFilename(doc.source_file)
    IN <<IF is_test THEN 1 ELSE 0, IF IsNone(file_profile) THEN 0 ELSE 1,
         IF IsNone(file_profile) THEN 0 ELSE ProfileOrder(profiles, file_profile.v),
         0, doc.document_index>>

\* sort_key(doc) of _sort_documents_for_merge
SortKey(doc, profiles, test_dirs) ==
    LET is_test == \E i \in 1..Len(test_dirs) : StartsWith(doc.source_file, test_dirs[i])
        location_order == IF is_test THEN 1 ELSE 0
        file_profile == GetProfileFromFilename(doc.source_file)
        suffix == Lower(PathSuffix(doc.source_file))
        extension_order == IF suffix = PROPERTIES_SUFFIX THEN 1 ELSE 0
        file_order == IF IsNone(file_profile) THEN 0 ELSE 1
        profile_order == IF IsNone(file_profile) THEN 0
                         ELSE ProfileOrder(profiles, file_profile.v)
        doc_order == doc.document_index
    IN <<location_order, file_order, profile_order, extension_order, doc_order>>

\* k1 < k2 for two tuples of numbers of the same length (Python's tuple order)
RECURSIVE TupleLess(_, _)
TupleLess(k1, k2) ==
    IF k1 = <<>> THEN FALSE
    ELSE IF Head(k1) # Head(k2) THEN Head(k1) < Head(k2)
    ELSE TupleLess(Tail(k1), Tail(k2))

\* sorted(documents, key=sort_key): a stable sort; the documents from i on are
\* inserted, each behind the documents whose key is not greater
RECURSIVE SortedFrom(_, _, _, _, _)
SortedFrom(documents, i, acc, profiles, test_dirs) ==
    IF i > Len(documents) THEN acc
    ELSE LET d == documents[i]
             k == SortKey(d, profiles, test_dirs)
             n == Cardinality({j \in 1..Len(acc) :
                                 ~TupleLess(k, SortKey(acc[j], profiles, test_dirs))})
         IN SortedFrom(documents, i + 1,
                       SubSeq(acc, 1, n) \o <<d>> \o SubSeq(acc, n + 1, Len(acc)),
                       profiles, test_dirs)

\* _sort_documents_for_merge(documents, profiles, main_dirs, test_dirs)
SortDocumentsForMerge(documents, profiles, main_dirs, test_dirs) ==
    SortedFrom(documents, 1, <<>>, profiles, test_dirs)

-----------------------------------------------------------------------------
(* Inputs of the merge specification *)

MaxDocs == 3

SERVER == <<"s">>
SERVERX == <<"s", "x">>
PORT == <<"p">>
HOST == <<"h">>
DEEP == <<"q">>
LOCALHOST == StrV(<<"l", "h">>)
OTHERHOST == StrV(<<"o", "h">>)

\* a mapping with the single key k
One(k, val) == MapV([x \in {k} |-> val])
\* a mapping with the two keys k1, k2
Two(k1, v1, k2, v2) == MapV([x \in {k1, k2} |-> IF x = k1 THEN v1 ELSE v2])

\* the values a document gives to the key "s"
ServerValues ==
    { IntV(1), NullV, ListV(<<IntV(1), IntV(2)>>), ListV(<<IntV(1), IntV(3)>>),
      ListV(<<One(PORT, IntV(80))>>), MapV(EmptyFn),
      One(PORT, IntV(8080)), One(PORT, IntV(80)), One(HOST, LOCALHOST),
      Two(PORT, IntV(8080), HOST, LOCALHOST), Two(PORT, IntV(80), HOST, OTHERHOST),
      One(PORT, One(DEEP, IntV(1))) }

\* the contents of the documents merged
MergeContents ==
    {MapV(EmptyFn), One(SERVERX, IntV(1)), Two(SERVER, IntV(2), SERVERX, IntV(2))}
    \cup {One(SERVER, val) : val \in ServerValues}

-----------------------------------------------------------------------------
(* The merge specification: a list of documents is built, then merged *)

MergeIdle ==
    /\ mdocs = <<>>
    /\ mpc = "idle"
    /\ mresult = EmptyFn
    /\ msources = EmptyFn

ExpandIdle ==
    /\ erequested = <<>>
    /\ egroups = EmptyFn
    /\ eout = [kind |-> "idle", value |-> <<>>]

SortIdle ==
    /\ sdocs = <<>>
    /\ sprofiles = <<>>
    /\ spc = "idle"
    /\ ssorted = <<>>
    /\ smerged = <<EmptyFn, EmptyFn>>

PlaceholdersIdle ==
    /\ pconfig = EmptyFn
    /\ penv_vars = NullV
    /\ penviron = EmptyFn
    /\ puse_system_env = FALSE
    /\ pvcap_services_json = NullV
    /\ pvcap_application_json = NullV
    /\ ppc = "idle"
    /\ presult = EmptyFn
    /\ pwarnings = <<>>
    /\ pvcap_config = EmptyFn
    /\ piter = 0
    /\ pchanged = FALSE

ResolverIdle ==
    /\ rfiles = EmptyFn
    /\ rprofiles = <<>>
    /\ rinclude_test = FALSE
    /\ rpc = "idle"
    /\ rloaded = [documents |-> <<>>, warnings |-> <<>>, errors |-> <<>>, loaded_files |-> {}]
    /\ rexpansion = [kind |-> "idle", value |-> <<>>]
    /\ rexpanded_profiles = <<>>
    /\ rsorted_docs = <<>>
    /\ rmerged = <<EmptyFn, EmptyFn>>
    /\ routcome = [ok |-> FALSE, value |-> <<>>, type |-> "", message |-> <<>>]

ExpressionIdle ==
    /\ xtokens = <<>>
    /\ xexpression = <<>>
    /\ xactive = <<>>
    /\ xpc = "idle"
    /\ xparsed = [ok |-> FALSE, expr |-> <<>>, pos |-> 0, message |-> <<>>]
    /\ xevaluated = [ok |-> FALSE, value |-> <<>>, type |-> "", message |-> <<>>]
    /\ xstr = <<>>
    /\ xreparsed = [ok |-> FALSE, expr |-> <<>>, pos |-> 0, message |-> <<>>]
    /\ xmatched = [ok |-> FALSE, value |-> <<>>, type |-> "", message |-> <<>>]

\* the other components at rest, while one component is exercised
NotMergeIdle == ExpandIdle /\ SortIdle /\ PlaceholdersIdle /\ ResolverIdle /\ ExpressionIdle
NotExpandIdle == MergeIdle /\ SortIdle /\ PlaceholdersIdle /\ ResolverIdle /\ ExpressionIdle
NotSortIdle == MergeIdle /\ ExpandIdle /\ PlaceholdersIdle /\ ResolverIdle /\ ExpressionIdle
NotPlaceholdersIdle == MergeIdle /\ ExpandIdle /\ SortIdle /\ ResolverIdle /\ ExpressionIdle
NotResolverIdle == MergeIdle /\ ExpandIdle /\ SortIdle /\ PlaceholdersIdle /\ ExpressionIdle
NotExpressionIdle == MergeIdle /\ ExpandIdle /\ SortIdle /\ PlaceholdersIdle /\ ResolverIdle

MergeInit ==
    /\ mdocs = <<>>
    /\ mpc = "input"
    /\ mresult = EmptyFn
    /\ msources = EmptyFn
    /\ NotMergeIdle

\* the caller appends a document to the list it will pass to merge_configs
AddDocument(c) ==
    /\ mpc = "input"
    /\ Len(mdocs) < MaxDocs
    /\ mdocs' = Append(mdocs, [content |-> c, source_file |-> Len(mdocs) + 1])
    /\ UNCHANGED <<mpc, mresult, msources>>
    /\ UNCHANGED notMergeVars

\* merge_configs(mdocs) is called and returns
CallMergeConfigs ==
    /\ mpc = "input"
    /\ LET r == MergeConfigs(mdocs)
       IN /\ mresult' = r[1]
          /\ msources' = r[2]
    /\ mpc' = "merged"
    /\ UNCHANGED mdocs
    /\ UNCHANGED notMergeVars

MergeNext ==
    \/ \E c \in MergeContents : AddDocument(c)
    \/ CallMergeConfigs

SpecMerge == MergeInit /\ [][MergeNext]_vars

-----------------------------------------------------------------------------
(* Trees read structurally, by sequences of keys *)

Absent == [t |-> "absent", v |-> 0]

\* the node of the tree under the keys ks, Absent if there is none
RECURSIVE NodeAt(_, _)
NodeAt(tree, ks) ==
    IF ks = <<>> THEN tree
    ELSE IF tree.t = "map" /\ Head(ks) \in DOMAIN tree.v
    THEN NodeAt(tree.v[Head(ks)], Tail(ks))
    ELSE Absent

\* the key sequences of the leaves (scalars and whole sequences) of the tree
RECURSIVE LeafKeyPaths(_)
LeafKeyPaths(tree) ==
    IF tree.t = "map"
    THEN UNION {{<<k>> \o ks : ks \in LeafKeyPaths(tree.v[k])} : k \in DOMAIN tree.v}
    ELSE {<<>>}

\* the dot-notation path of a key sequence
RECURSIVE Dotted(_)
Dotted(ks) ==
    IF ks = <<>> THEN <<>>
    ELSE IF Len(ks) = 1 THEN ks[1]
    ELSE ks[1] \o <<".">> \o Dotted(Tail(ks))

\* the document writes at ks or replaces a mapping above ks by a non-mapping
Overwrites(doc, ks) ==
    \/ NodeAt(doc.content, ks) # Absent
    \/ \E n \in 1..(Len(ks) - 1) :
         LET above == NodeAt(doc.content, SubSeq(ks, 1, n))
         IN above # Absent /\ above.t # "map"

\* <<i, ks>>: document i writes the leaf ks and no later document overwrites it
LastWrites(docs) ==
    {w \in UNION {{<<i, ks>> : ks \in LeafKeyPaths(docs[i].content)} : i \in 1..Len(docs)} :
        \A j \in (w[1] + 1)..Len(docs) : ~Overwrites(docs[j], w[2])}

-----------------------------------------------------------------------------
(* The expansion specification: expand_profiles is called on a request and a
   group mapping *)

MaxMembers == 2

PA == <<"a">>
PB == <<"b">>
PC == <<"c">>
ProfileNames == {PA, PB, PC}

\* the member lists of a group
MemberLists == UNION {[1..n -> ProfileNames] : n \in 0..MaxMembers}

\* every group mapping over the profile names (a name with no members is no group)
GroupMappings ==
    {[g \in {n \in ProfileNames : m[n] # <<>>} |-> m[g]] : m \in [ProfileNames -> MemberLists]}

\* the requests, up to a renaming of the profiles
Requests == {<<>>, <<PA>>, <<PA, PA>>, <<PA, PB>>, <<PA, PB, PA>>, <<PA, PB, PC>>}

\* the example of the repository's documentation
PROD == <<"p", "r", "o", "d">>
PRODDB == <<"p", "r", "o", "d", "d", "b">>
PRODMQ == <<"p", "r", "o", "d", "m", "q">>
POSTGRES == <<"p", "o", "s", "t", "g", "r", "e", "s">>
HIKARI == <<"h", "i", "k", "a", "r", "i">>
ExampleGroups ==
    [g \in {PROD, PRODDB} |-> IF g = PROD THEN <<PRODDB, PRODMQ>> ELSE <<POSTGRES, HIKARI>>]

ExpandInit ==
    /\ \/ erequested \in Requests /\ egroups \in GroupMappings
       \/ erequested = <<PROD>> /\ egroups = ExampleGroups
    /\ eout = [kind |-> "none", value |-> <<>>]
    /\ NotExpandIdle

\* expand_profiles(erequested, egroups) is called and returns or raises
CallExpandProfiles ==
    /\ eout.kind = "none"
    /\ eout' = ExpandProfiles(erequested, egroups)
    /\ UNCHANGED <<erequested, egroups>>
    /\ UNCHANGED notExpandVars

ExpandNext == CallExpandProfiles

SpecExpand == ExpandInit /\ [][ExpandNext]_vars

\* the members of a profile (none if it is no group)
MembersOf(groups, p) == IF p \in DOMAIN groups THEN groups[p] ELSE <<>>

\* the profiles that occur in a request or a group mapping
Mentioned(requested, groups) ==
    {requested[i] : i \in 1..Len(requested)}
    \cup DOMAIN groups
    \cup UNION {{groups[g][i] : i \in 1..Len(groups[g])} : g \in DOMAIN groups}

\* Edge(groups, p, q): q is a member of group p
Edge(groups, p, q) == InList(q, MembersOf(groups, p))

\* the profiles reachable from p in at most n steps along member edges
RECURSIVE ReachWithin(_, _, _)
ReachWithin(groups, ps, n) ==
    IF n = 0 THEN ps
    ELSE ReachWithin(groups,
                     ps \cup {q \in Mentioned(<<>>, groups) : \E p \in ps : Edge(groups, p, q)},
                     n - 1)

Reachable(groups, ps) == ReachWithin(groups, ps, Cardinality(Mentioned(<<>>, groups)))

\* p lies on a cycle of the group mapping
OnCycle(groups, p) ==
    \E q \in Mentioned(<<>>, groups) : Edge(groups, p, q) /\ p \in Reachable(groups, {q})

\* some profile reachable from the request lies on a cycle
CycleReachable(requested, groups) ==
    \E p \in Reachable(groups, {requested[i] : i \in 1..Len(requested)}) : OnCycle(groups, p)

Acyclic(groups) == \A p \in Mentioned(<<>>, groups) : ~OnCycle(groups, p)

\* the pre-order depth-first expansion of p with duplicates kept (acyclic groups)
RECURSIVE PreOrder(_, _)
RECURSIVE PreOrderAll(_, _)
PreOrder(groups, p) == <<p>> \o PreOrderAll(groups, MembersOf(groups, p))
PreOrderAll(groups, ps) ==
    IF ps = <<>> THEN <<>> ELSE PreOrder(groups, Head(ps)) \o PreOrderAll(groups, Tail(ps))

\* a list without the later occurrences of its elements
RECURSIVE FirstOccurrences(_)
FirstOccurrences(lst) ==
    IF lst = <<>> THEN <<>>
    ELSE LET front == FirstOccurrences(SubSeq(lst, 1, Len(lst) - 1))
             last == lst[Len(lst)]
         IN IF InList(last, front) THEN front ELSE Append(front, last)

\* C3: for an acyclic group mapping expand_profiles returns exactly the pre-order
\* depth-first expansion of the request: each requested profile in request order,
\* followed at once by the recursive expansion of its members in declared order,
\* a profile already emitted being skipped.
C3_PreOrderExpansion ==
    (eout.kind \in {"returned", "raised"} /\ Acyclic(egroups)) =>
        /\ eout.kind = "returned"
        /\ eout.value = FirstOccurrences(PreOrderAll(egroups, erequested))

\* the example of the claim
C3_Witness ==
    /\ erequested = <<PROD>>
    /\ egroups = ExampleGroups
    /\ eout = [kind |-> "returned", value |-> <<PROD, PRODDB, POSTGRES, HIKARI, PRODMQ>>]

\* a function with the given pairs
Pairs2(k1, v1, k2, v2) == [x \in {k1, k2} |-> IF x = k1 THEN v1 ELSE v2]
Pairs3(k1, v1, k2, v2, k3, v3) ==
    [x \in {k1, k2, k3} |-> IF x = k1 THEN v1 ELSE IF x = k2 THEN v2 ELSE v3]

\* C4: a cycle of the group mapping met during expansion makes expand_profiles
\* raise CircularProfileGroupError instead of returning a list, and the error's
\* cycle_path is the ancestor path, which starts at a requested profile, follows
\* member edges and repeats no profile, followed by the profile that repeats one
\* of the ancestors: [a,b,a] for {a:[b], b:[a]}, [a,a] for {a:[a]}, [a,b,c,a]
\* for the 3-cycle.
C4_CyclePath ==
    (eout.kind \in {"returned", "raised"}) =>
        /\ CycleReachable(erequested, egroups) => eout.kind = "raised"
        /\ eout.kind = "raised" =>
             LET cp == eout.value
                 n == Len(cp)
             IN /\ n >= 2
                /\ InList(cp[1], erequested)
                /\ \A i \in 1..(n - 1) : Edge(egroups, cp[i], cp[i + 1])
                /\ \A i, j \in 1..(n - 1) : i # j => cp[i] # cp[j]
                /\ \E i \in 1..(n - 1) : cp[i] = cp[n]
        /\ (erequested = <<PA>> /\ egroups = Pairs2(PA, <<PB>>, PB, <<PA>>))
             => eout = [kind |-> "raised", value |-> <<PA, PB, PA>>]
        /\ (erequested = <<PA>> /\ egroups = [x \in {PA} |-> <<PA>>])
             => eout = [kind |-> "raised", value |-> <<PA, PA>>]
        /\ (erequested = <<PA>> /\ egroups = Pairs3(PA, <<PB>>, PB, <<PC>>, PC, <<PA>>))
             => eout = [kind |-> "raised", value |-> <<PA, PB, PC, PA>>]

\* the 3-cycle of the claim has raised
C4_Witness ==
    /\ erequested = <<PA>>
    /\ egroups = Pairs3(PA, <<PB>>, PB, <<PC>>, PC, <<PA>>)
    /\ eout = [kind |-> "raised", value |-> <<PA, PB, PC, PA>>]

-----------------------------------------------------------------------------
(* The ordering specification: a list of applicable documents is built, then
   sorted by _sort_documents_for_merge and merged by merge_configs, as
   resolve_profiles does *)

MaxSortDocs == 3

PROJECT == <<"p">>
MAIN_DIR == PathJoin(PathJoin(PathJoin(PROJECT, <<"s", "r", "c">>), <<"m", "a", "i", "n">>), <<"r", "e", "s", "o", "u", "r", "c", "e", "s">>)
TEST_DIR == PathJoin(PathJoin(PathJoin(PROJECT, <<"s", "r", "c">>), <<"t", "e", "s", "t">>), <<"r", "e", "s", "o", "u", "r", "c", "e", "s">>)

F_BASE == PathJoin(MAIN_DIR, <<"a", "p", "p", "l", "i", "c", "a", "t", "i", "o", "n", ".", "y", "m", "l">>)
F_A == PathJoin(MAIN_DIR, <<"a", "p", "p", "l", "i", "c", "a", "t", "i", "o", "n", "-", "a", ".", "y", "m", "l">>)
F_B == PathJoin(MAIN_DIR, <<"a", "p", "p", "l", "i", "c", "a", "t", "i", "o", "n", "-", "b", ".", "y", "m", "l">>)
F_X == PathJoin(MAIN_DIR, <<"a", "p", "p", "l", "i", "c", "a", "t", "i", "o", "n", "-", "x", ".", "y", "m", "l">>)
F_A_PROPERTIES == PathJoin(MAIN_DIR, <<"a", "p", "p", "l", "i", "c", "a", "t", "i", "o", "n", "-", "a", ".", "p", "r", "o", "p", "e", "r", "t", "i", "e", "s">>)
F_TEST_A == PathJoin(TEST_DIR, <<"a", "p", "p", "l", "i", "c", "a", "t", "i", "o", "n", "-", "a", ".", "y", "m", "l">>)
F_TEST_B == PathJoin(TEST_DIR, <<"a", "p", "p", "l", "i", "c", "a", "t", "i", "o", "n", "-", "b", ".", "y", "m", "l">>)

SortFiles == <<F_BASE, F_A, F_B, F_X, F_A_PROPERTIES, F_TEST_A, F_TEST_B>>

KEY == <<"k">>
OTHERKEY == <<"j">>

\* the documents to order: every file sets KEY to its own number, application-a.yml
\* and application-b.yml may set OTHERKEY instead, and application-a.yml has a
\* second document
SortCandidates ==
    {ConfigDocument(One(KEY, IntV(n)), SortFiles[n], NullV, 0) : n \in 1..Len(SortFiles)}
    \cup {ConfigDocument(One(OTHERKEY, IntV(n)), SortFiles[n], NullV, 0) : n \in {2, 3}}
    \cup {ConfigDocument(One(KEY, IntV(0)), F_A, NullV, 1)}

\* the expanded profile lists; x is listed in none, a not in the third
SortProfileLists == {<<PA, PB>>, <<PB, PA>>, <<PB>>, <<>>}

SortInit ==
    /\ sdocs = <<>>
    /\ sprofiles \in SortProfileLists
    /\ spc = "input"
    /\ ssorted = <<>>
    /\ smerged = <<EmptyFn, EmptyFn>>
    /\ NotSortIdle

\* one more applicable document is handed to _sort_documents_for_merge
SortAddDocument(d) ==
    /\ spc = "input"
    /\ Len(sdocs) < MaxSortDocs
    /\ ~InList(d, sdocs)
    /\ sdocs' = Append(sdocs, d)
    /\ UNCHANGED <<sprofiles, spc, ssorted, smerged>>
    /\ UNCHANGED notSortVars

\* sorted_docs = _sort_documents_for_merge(...); merge_configs(sorted_docs)
CallSortAndMerge ==
    /\ spc = "input"
    /\ LET sorted_docs == SortDocumentsForMerge(sdocs, sprofiles, <<MAIN_DIR>>, <<TEST_DIR>>)
       IN /\ ssorted' = sorted_docs
          /\ smerged' = MergeConfigs(sorted_docs)
    /\ spc' = "sorted"
    /\ UNCHANGED <<sdocs, sprofiles>>
    /\ UNCHANGED notSortVars

SortNext ==
    \/ \E d \in SortCandidates : SortAddDocument(d)
    \/ CallSortAndMerge

SpecSort == SortInit /\ [][SortNext]_vars

\* the document comes from the test resource root
InTestLocation(doc) == StartsWith(doc.source_file, TEST_DIR)

\* the name of the profile of a profile-specific file application-<profile>.<ext>
\* (<<>> for a base file), read off the file name from its end
ProfileOfFile(path) ==
    LET name == PathName(path)
        dot == LastIndexOf(name, ".")
    IN IF Len(name) > Len(APPLICATION) + 1 /\ name[Len(APPLICATION) + 1] = "-"
       THEN SubSeq(name, Len(APPLICATION) + 2, dot - 1)
       ELSE <<>>

\* the place of a profile in the expanded list; an unlisted one is behind all
PlaceInList(profiles, p) ==
    IF InList(p, profiles)
    THEN CHOOSE i \in 1..Len(profiles) : profiles[i] = p
    ELSE Len(profiles) + 1

\* d1 and d2 are documents of profile-specific files of one location, and the
\* profile of d1 is placed before the profile of d2
ProfileBefore(d1, d2, profiles) ==
    /\ InTestLocation(d1) = InTestLocation(d2)
    /\ ProfileOfFile(d1.source_file) # <<>>
    /\ ProfileOfFile(d2.source_file) # <<>>
    /\ PlaceInList(profiles, ProfileOfFile(d1.source_file))
         < PlaceInList(profiles, ProfileOfFile(d2.source_file))

\* the position of a document in a list that holds it once
PositionIn(lst, d) == CHOOSE i \in 1..Len(lst) : lst[i] = d

\* C2: among the profile-specific files of one location the documents are merged
\* in the order of their profile's place in the expanded profile list, a file whose
\* profile is not listed coming after all listed ones; so a key set by documents
\* of application-p and of application-q, p placed before q, does not end with p's
\* value, and ends with q's when no other document sets it.
C2_ProfileListOrder ==
    spc = "sorted" =>
        /\ Len(ssorted) = Len(sdocs)
        /\ \A d \in SortCandidates : InList(d, sdocs) <=> InList(d, ssorted)
        /\ \A i, j \in 1..Len(sdocs) :
             ProfileBefore(sdocs[i], sdocs[j], sprofiles) =>
                /\ PositionIn(ssorted, sdocs[i]) < PositionIn(ssorted, sdocs[j])
                /\ \A key \in {KEY, OTHERKEY} :
                     (key \in DOMAIN sdocs[i].content.v /\ key \in DOMAIN sdocs[j].content.v) =>
                        /\ smerged[1][key] # sdocs[i].content.v[key]
                        /\ smerged[2][key] # sdocs[i].source_file
                        /\ (\A n \in 1..Len(sdocs) :
                              (n # i /\ n # j) => key \notin DOMAIN sdocs[n].content.v)
                           => /\ smerged[1][key] = sdocs[j].content.v[key]
                              /\ smerged[2][key] = sdocs[j].source_file

\* b is listed before a, the documents arrive a first, and a's value wins; and an
\* unlisted application-x, arriving first, is merged after the listed application-b
C2_Witness ==
    /\ spc = "sorted"
    /\ sprofiles = <<PB, PA>>
    /\ Len(sdocs) = 3
    /\ sdocs[1] = ConfigDocument(One(KEY, IntV(4)), F_X, NullV, 0)
    /\ sdocs[2] = ConfigDocument(One(OTHERKEY, IntV(2)), F_A, NullV, 0)
    /\ sdocs[3] = ConfigDocument(One(OTHERKEY, IntV(3)), F_B, NullV, 0)
    /\ ssorted = <<sdocs[3], sdocs[2], sdocs[1]>>
    /\ smerged[1][OTHERKEY] = IntV(2)
    /\ smerged[2][OTHERKEY] = F_A

-----------------------------------------------------------------------------
(* Text helpers of the placeholder code *)

DIGITS == <<"0", "1", "2", "3", "4", "5", "6", "7", "8", "9">>

\* str(n) for a number n >= 0
RECURSIVE IntStr(_)
IntStr(n) ==
    IF n < 10 THEN <<DIGITS[n + 1]>>
    ELSE IntStr(n \div 10) \o <<DIGITS[(n % 10) + 1]>>

\* sub in s
Contains(s, sub) ==
    \E i \in 1..(Len(s) - Len(sub) + 1) : SubSeq(s, i, i + Len(sub) - 1) = sub

\* s.split(sep) for a one-character sep
RECURSIVE SplitFrom(_, _, _)
SplitFrom(s, i, sep) ==
    IF \E j \in i..Len(s) : s[j] = sep
    THEN LET j == CHOOSE j \in i..Len(s) : s[j] = sep /\ \A n \in i..(j - 1) : s[n] # sep
         IN <<SubSeq(s, i, j - 1)>> \o SplitFrom(s, j + 1, sep)
    ELSE <<SubSeq(s, i, Len(s))>>

Split(s, sep) == SplitFrom(s, 1, sep)

\* sep.join(parts)
RECURSIVE Join(_, _)
Join(parts, sep) ==
    IF parts = <<>> THEN <<>>
    ELSE IF Len(parts) = 1 THEN parts[1]
    ELSE parts[1] \o sep \o Join(Tail(parts), sep)

\* repr(s) of a text without backslashes and control characters
ReprStr(s) ==
    IF (\E i \in 1..Len(s) : s[i] = "'") /\ ~(\E i \in 1..Len(s) : s[i] = "\"")
    THEN <<"\"">> \o s \o <<"\"">>
    ELSE <<"'">> \o s \o <<"'">>

\* repr(value); a dict is written in the order KeySeq gives its keys
RECURSIVE PyRepr(_)
RECURSIVE PyReprItems(_, _)
PyRepr(value) ==
    CASE value.t = "str" -> ReprStr(value.v)
      [] value.t = "int" -> IntStr(value.v)
      [] value.t = "null" -> <<"N", "o", "n", "e">>
      [] value.t = "list" ->
            <<"[">> \o Join([i \in 1..Len(value.v) |-> PyRepr(value.v[i])], <<",", " ">>) \o <<"]">>
      [] value.t = "map" ->
            <<"{">> \o Join(PyReprItems(value.v, KeySeq(DOMAIN value.v)), <<",", " ">>) \o <<"}">>

PyReprItems(f, ks) ==
    [i \in 1..Len(ks) |-> ReprStr(ks[i]) \o <<":", " ">> \o PyRepr(f[ks[i]])]

\* str(value)
PyStr(value) == IF value.t = "str" THEN value.v ELSE PyRepr(value)

-----------------------------------------------------------------------------
(* placeholders.py: PLACEHOLDER_PATTERN. A match is a dollar sign and an opening
   brace, a key of one or more characters other than the closing brace and the
   colon, optionally a colon and a default of characters other than the closing
   brace, and the closing brace *)

\* the first position from j on that holds a character of stops, Len(s) + 1 if none
RECURSIVE RunEnd(_, _, _)
RunEnd(s, j, stops) ==
    IF j > Len(s) \/ s[j] \in stops THEN j ELSE RunEnd(s, j + 1, stops)

NoMatch == [ok |-> FALSE, start |-> 0, end |-> 0, key |-> <<>>, default |-> NullV]

\* PLACEHOLDER_PATTERN.match(s, i - 1): group(1) is key, group(2) is default
\* (NullV where the group took no part), the match is s[start..end]
MatchAt(s, i) ==
    IF i + 1 > Len(s) \/ s[i] # "$" \/ s[i + 1] # "{" THEN NoMatch
    ELSE LET j == RunEnd(s, i + 2, {"}", ":"})
         IN IF j = i + 2 \/ j > Len(s) THEN NoMatch
            ELSE IF s[j] = "}"
            THEN [ok |-> TRUE, start |-> i, end |-> j,
                  key |-> SubSeq(s, i + 2, j - 1), default |-> NullV]
            ELSE LET k == RunEnd(s, j + 1, {"}"})
                 IN IF k > Len(s) THEN NoMatch
                    ELSE [ok |-> TRUE, start |-> i, end |-> k,
                          key |-> SubSeq(s, i + 2, j - 1),
                          default |-> StrV(SubSeq(s, j + 1, k - 1))]

\* PLACEHOLDER_PATTERN.finditer(s), from position i
RECURSIVE FindIterFrom(_, _)
FindIterFrom(s, i) ==
    IF i > Len(s) THEN <<>>
    ELSE LET m == MatchAt(s, i)
         IN IF m.ok THEN <<m>> \o FindIterFrom(s, m.end + 1)
            ELSE FindIterFrom(s, i + 1)

FindIter(s) == FindIterFrom(s, 1)

\* match.group(0)
Group0(s, m) == SubSeq(s, m.start, m.end)

-----------------------------------------------------------------------------
(* env_vars.py *)

\* property_path_to_env_vars(property_path)
PropertyPathToEnvVars(property_path) ==
    LET standard == Upper(ReplaceChar(property_path, ".", "_"))
        with_dashes == Upper(ReplaceChar(ReplaceChar(property_path, "-", "_"), ".", "_"))
    IN IF with_dashes # standard THEN <<standard, with_dashes>> ELSE <<standard>>

\* the environment value by precedence of the source: the first candidate name
\* set in env_vars, and only if there is none the first set in os.environ
EnvValueByPrecedence(property_path, env_vars, system_env, environ) ==
    LET names == PropertyPathToEnvVars(property_path)
    IN IF \E i \in 1..Len(names) : names[i] \in DOMAIN env_vars
       THEN StrV(env_vars[names[CHOOSE i \in 1..Len(names) : names[i] \in DOMAIN env_vars
                                    /\ \A j \in 1..(i - 1) : names[j] \notin DOMAIN env_vars]])
       ELSE IF system_env /\ \E i \in 1..Len(names) : names[i] \in DOMAIN environ
       THEN StrV(environ[names[CHOOSE i \in 1..Len(names) : names[i] \in DOMAIN environ
                                    /\ \A j \in 1..(i - 1) : names[j] \notin DOMAIN environ]])
       ELSE NullV

\* the loop of get_env_value over possible_names, from the i-th name
RECURSIVE GetEnvValueFrom(_, _, _, _, _)
GetEnvValueFrom(names, i, env_vars, system_env, environ) ==
    IF i > Len(names) THEN NullV
    ELSE IF names[i] \in DOMAIN env_vars THEN StrV(env_vars[names[i]])
    ELSE IF system_env /\ names[i] \in DOMAIN environ THEN StrV(environ[names[i]])
    ELSE GetEnvValueFrom(names, i + 1, env_vars, system_env, environ)

\* get_env_value(property_path, env_vars, system_env), reading os.environ
GetEnvValue(property_path, env_vars, system_env, environ) ==
    GetEnvValueFrom(PropertyPathToEnvVars(property_path), 1, env_vars, system_env, environ)

-----------------------------------------------------------------------------
(* vcap_services.py *)

VCAP == <<"v", "c", "a", "p">>
SERVICES == <<"s", "e", "r", "v", "i", "c", "e", "s">>
APPLICATION_KEY == <<"a", "p", "p", "l", "i", "c", "a", "t", "i", "o", "n">>
NAME == <<"n", "a", "m", "e">>
VCAP_SERVICES == <<"V", "C", "A", "P", "_", "S", "E", "R", "V", "I", "C", "E", "S">>
VCAP_APPLICATION == <<"V", "C", "A", "P", "_", "A", "P", "P", "L", "I", "C", "A", "T", "I", "O", "N">>

\* bool(value)
Truthy(value) ==
    CASE value.t = "str" -> value.v # <<>>
      [] value.t = "int" -> value.v # 0
      [] value.t = "null" -> FALSE
      [] value.t = "list" -> value.v # <<>>
      [] value.t = "map" -> DOMAIN value.v # {}

\* the JSON texts that are handed to json.loads
APPLICATION_JSON == <<"{", "\"", "n", "a", "m", "e", "\"", ":", "\"", "c", "f", "\"", "}">>
SERVICES_JSON == <<"{", "\"", "p", "\"", ":", "[", "{", "\"", "n", "a", "m", "e", "\"", ":", "\"", "d", "b", "\"", ",", "\"", "u", "r", "i", "\"", ":", "\"", "u", "\"", "}", "]", "}">>
NAMELESS_SERVICES_JSON == <<"{", "\"", "p", "\"", ":", "[", "{", "\"", "u", "r", "i", "\"", ":", "\"", "u", "\"", "}", "]", "}">>
ARRAY_JSON == <<"[", "]">>
BROKEN_JSON == <<"{">>

\* json.loads(text) on these texts: [ok |-> TRUE, value] or, for a
\* JSONDecodeError, [ok |-> FALSE]
JsonLoads(text) ==
    CASE text = APPLICATION_JSON ->
            [ok |-> TRUE, value |-> MapV([k \in {NAME} |-> StrV(<<"c", "f">>)])]
      [] text = SERVICES_JSON ->
            [ok |-> TRUE, value |-> MapV([k \in {<<"p">>} |-> ListV(<<
                MapV([k2 \in {NAME, <<"u", "r", "i">>} |->
                        IF k2 = NAME THEN StrV(<<"d", "b">>) ELSE StrV(<<"u">>)])>>)])]
      [] text = NAMELESS_SERVICES_JSON ->
            [ok |-> TRUE, value |-> MapV([k \in {<<"p">>} |-> ListV(<<
                MapV([k2 \in {<<"u", "r", "i">>} |-> StrV(<<"u">>)])>>)])]
      [] text = ARRAY_JSON -> [ok |-> TRUE, value |-> ListV(<<>>)]
      [] OTHER -> [ok |-> FALSE, value |-> NullV]

\* os.environ.get(name)
EnvironGet(environ, name) == IF name \in DOMAIN environ THEN StrV(environ[name]) ELSE NullV

\* is_vcap_placeholder(placeholder)
IsVcapPlaceholder(placeholder) ==
    \/ StartsWith(placeholder, <<"v", "c", "a", "p", ".", "s", "e", "r", "v", "i", "c", "e", "s", ".">>)
    \/ StartsWith(placeholder, <<"v", "c", "a", "p", ".", "a", "p", "p", "l", "i", "c", "a", "t", "i", "o", "n", ".">>)

\* the loop of parse_vcap_services over the instances of one service type
RECURSIVE ServiceInstances(_, _, _)
ServiceInstances(instances, i, services) ==
    IF i > Len(instances) THEN services
    ELSE LET instance == instances[i]
         IN IF ~IsDict(instance) THEN ServiceInstances(instances, i + 1, services)
            ELSE LET service_name == IF NAME \in DOMAIN instance.v THEN instance.v[NAME]
                                     ELSE NullV
                 IN IF ~Truthy(service_name)
                    THEN ServiceInstances(instances, i + 1, services)
                    ELSE ServiceInstances(instances, i + 1,
                                          Put(services, service_name.v, instance))

\* the loop of parse_vcap_services over vcap_data.items()
RECURSIVE ServiceTypes(_, _, _)
ServiceTypes(vcap_data, ks, services) ==
    IF ks = <<>> THEN services
    ELSE LET instances == vcap_data[Head(ks)]
         IN IF ~IsList(instances) THEN ServiceTypes(vcap_data, Tail(ks), services)
            ELSE ServiceTypes(vcap_data, Tail(ks),
                              ServiceInstances(instances.v, 1, services))

\* parse_vcap_services(vcap_json), reading os.environ
ParseVcapServices(vcap_json, environ) ==
    LET json == IF IsNone(vcap_json) THEN EnvironGet(environ, VCAP_SERVICES) ELSE vcap_json
    IN IF ~Truthy(json) THEN EmptyFn
       ELSE LET loaded == JsonLoads(json.v)
            IN IF ~loaded.ok THEN EmptyFn
               ELSE IF ~IsDict(loaded.value) THEN EmptyFn
               ELSE LET services == ServiceTypes(loaded.value.v,
                                                 KeySeq(DOMAIN loaded.value.v), EmptyFn)
                    IN IF DOMAIN services # {}
                       THEN [k \in {VCAP} |-> MapV([k2 \in {SERVICES} |-> MapV(services)])]
                       ELSE EmptyFn

\* parse_vcap_application(vcap_json), reading os.environ
ParseVcapApplication(vcap_json, environ) ==
    LET json == IF IsNone(vcap_json) THEN EnvironGet(environ, VCAP_APPLICATION) ELSE vcap_json
    IN IF ~Truthy(json) THEN EmptyFn
       ELSE LET loaded == JsonLoads(json.v)
            IN IF ~loaded.ok THEN EmptyFn
               ELSE IF ~IsDict(loaded.value) THEN EmptyFn
               ELSE IF Truthy(loaded.value)
               THEN [k \in {VCAP} |-> MapV([k2 \in {APPLICATION_KEY} |-> loaded.value])]
               ELSE EmptyFn

\* get_vcap_config(vcap_services_json, vcap_application_json)
GetVcapConfig(vcap_services_json, vcap_application_json, environ) ==
    LET services == ParseVcapServices(vcap_services_json, environ)
        application == ParseVcapApplication(vcap_application_json, environ)
        with_services == IF DOMAIN services # {}
                         THEN Put(EmptyFn, SERVICES, services[VCAP].v[SERVICES])
                         ELSE EmptyFn
        with_both == IF DOMAIN application # {}
                     THEN Put(with_services, APPLICATION_KEY,
                              application[VCAP].v[APPLICATION_KEY])
                     ELSE with_services
    IN IF DOMAIN services = {} /\ DOMAIN application = {} THEN EmptyFn
       ELSE [k \in {VCAP} |-> MapV(with_both)]

\* is_vcap_available()
IsVcapAvailable(environ) ==
    \/ Truthy(EnvironGet(environ, VCAP_SERVICES))
    \/ Truthy(EnvironGet(environ, VCAP_APPLICATION))

-----------------------------------------------------------------------------
(* placeholders.py: one pass of the resolution *)

MAX_ITERATIONS == 10

\* the loop of get_nested_value over parts, current being the node reached
RECURSIVE NestedFrom(_, _)
NestedFrom(current, parts) ==
    IF parts = <<>> THEN current
    ELSE IF ~IsDict(current) THEN NullV
    ELSE IF Head(parts) \notin DOMAIN current.v THEN NullV
    ELSE NestedFrom(current.v[Head(parts)], Tail(parts))

\* get_nested_value(config, key_path): the value, NullV for None
GetNestedValue(config, key_path) == NestedFrom(MapV(config), Split(key_path, "."))

\* what a pass looks values up in: the arguments of resolve_single_value
\* other than value, and os.environ
Lookup(config, env_vars, use_system_env, vcap_config, environ) ==
    [config |-> config, env_vars |-> env_vars, use_system_env |-> use_system_env,
     vcap_config |-> vcap_config, environ |-> environ]

\* _get_env_value(key_path, env_vars, use_system_env)
GetEnvValueOr(key_path, env_vars, use_system_env, environ) ==
    GetEnvValue(key_path, IF Truthy(env_vars) THEN env_vars.v ELSE EmptyFn,
                use_system_env, environ)

\* replace_match that substitutes repr(resolved) for str(resolved)
ReplaceMatchRepr(s, m, lk) ==
    LET env_value == GetEnvValueOr(m.key, lk.env_vars, lk.use_system_env, lk.environ)
        vcap_value == GetNestedValue(lk.vcap_config, m.key)
        resolved == GetNestedValue(lk.config, m.key)
    IN IF ~IsNone(env_value) THEN <<env_value.v, TRUE>>
       ELSE IF DOMAIN lk.vcap_config # {} /\ IsVcapPlaceholder(m.key) /\ ~IsNone(vcap_value)
       THEN <<PyStr(vcap_value), TRUE>>
       ELSE IF ~IsNone(resolved) THEN <<PyRepr(resolved), TRUE>>
       ELSE IF ~IsNone(m.default) THEN <<m.default.v, TRUE>>
       ELSE <<Group0(s, m), FALSE>>

\* replace_match(match) of resolve_single_value: <<the replacement, whether it
\* set changed>>
ReplaceMatch(s, m, lk) ==
    LET key_path == m.key
        default_value == m.default
        env_value == GetEnvValueOr(key_path, lk.env_vars, lk.use_system_env, lk.environ)
        vcap_value == GetNestedValue(lk.vcap_config, key_path)
        resolved == GetNestedValue(lk.config, key_path)
    IN IF ~IsNone(env_value) THEN <<env_value.v, TRUE>>
       ELSE IF DOMAIN lk.vcap_config # {} /\ IsVcapPlaceholder(key_path) /\ ~IsNone(vcap_value)
       THEN <<PyStr(vcap_value), TRUE>>
       ELSE IF ~IsNone(resolved) THEN <<PyStr(resolved), TRUE>>
       ELSE IF ~IsNone(default_value) THEN <<default_value.v, TRUE>>
       ELSE <<Group0(s, m), FALSE>>

\* PLACEHOLDER_PATTERN.sub(replace_match, value) from position i:
\* <<the text, changed>>
RECURSIVE SubFrom(_, _, _)
SubFrom(s, i, lk) ==
    IF i > Len(s) THEN <<<<>>, FALSE>>
    ELSE LET m == MatchAt(s, i)
         IN IF m.ok
            THEN LET r == ReplaceMatch(s, m, lk)
                     rest == SubFrom(s, m.end + 1, lk)
                 IN <<r[1] \o rest[1], r[2] \/ rest[2]>>
            ELSE LET rest == SubFrom(s, i + 1, lk)
                 IN <<<<s[i]>> \o rest[1], rest[2]>>

\* resolve_single_value mutated to report a change for every text with "${"
ResolveSingleValueAlwaysChanged(value, lk) ==
    IF ~Contains(value, <<"$", "{">>) THEN <<value, FALSE>>
    ELSE <<SubFrom(value, 1, lk)[1], TRUE>>

\* resolve_single_value(value, config, env_vars, use_system_env, vcap_config):
\* <<resolved_value, changed>>
ResolveSingleValue(value, lk) ==
    IF ~Contains(value, <<"$", "{">>) THEN <<value, FALSE>>
    ELSE SubFrom(value, 1, lk)

\* _resolve_pass(config, root_config, ...): <<processed_config, changed>>; the
\* warnings it returns are always empty
RECURSIVE ResolvePass(_, _)
RECURSIVE ResolvePassValue(_, _)
RECURSIVE ResolvePassItem(_, _)

\* the branch mutated to write every other value as its text
ResolvePassValueAsText(value, lk) ==
    CASE IsDict(value) ->
            LET sub == ResolvePass(value.v, lk) IN <<MapV(sub[1]), sub[2]>>
      [] IsList(value) ->
            <<ListV(ComputedSeq([i \in 1..Len(value.v) |->
                                    ResolvePassItem(value.v[i], lk)[1]])),
              \E i \in 1..Len(value.v) : ResolvePassItem(value.v[i], lk)[2]>>
      [] value.t = "str" ->
            LET r == ResolveSingleValue(value.v, lk) IN <<StrV(r[1]), r[2]>>
      [] OTHER -> <<StrV(PyStr(value)), FALSE>>

ResolvePass(config, lk) ==
    <<Computed([key \in DOMAIN config |-> ResolvePassValue(config[key], lk)[1]]),
      \E key \in DOMAIN config : ResolvePassValue(config[key], lk)[2]>>

\* the branch of the loop of _resolve_pass for one value
ResolvePassValue(value, lk) ==
    CASE IsDict(value) ->
            LET sub == ResolvePass(value.v, lk) IN <<MapV(sub[1]), sub[2]>>
      [] IsList(value) ->
            <<ListV(ComputedSeq([i \in 1..Len(value.v) |->
                                    ResolvePassItem(value.v[i], lk)[1]])),
              \E i \in 1..Len(value.v) : ResolvePassItem(value.v[i], lk)[2]>>
      [] value.t = "str" ->
            LET r == ResolveSingleValue(value.v, lk) IN <<StrV(r[1]), r[2]>>
      [] OTHER -> <<value, FALSE>>

\* the branch of the inner loop of _resolve_pass for one item of a list
ResolvePassItem(item, lk) ==
    CASE item.t = "str" ->
            LET r == ResolveSingleValue(item.v, lk) IN <<StrV(r[1]), r[2]>>
      [] IsDict(item) ->
            LET sub == ResolvePass(item.v, lk) IN <<MapV(sub[1]), sub[2]>>
      [] OTHER -> <<item, FALSE>>

-----------------------------------------------------------------------------
(* placeholders.py: the warnings *)

\* f"{current_path}[{i}]"
ItemPath(current_path, i) == current_path \o <<"[">> \o IntStr(i) \o <<"]">>

\* the warning of _find_placeholders_without_defaults for a key at a path
NoDefaultWarning(path, key_path) ==
    <<"P", "l", "a", "c", "e", "h", "o", "l", "d", "e", "r", " ", "w", "i", "t", "h", "o", "u", "t", " ", "d", "e", "f", "a", "u", "l", "t", " ", "a", "t", " ">> \o path \o <<":", " ", "$", "{">> \o key_path \o <<"}", " ", "-", " ">>
    \o <<"T", "h", "i", "s", " ", "p", "l", "a", "c", "e", "h", "o", "l", "d", "e", "r", " ", "h", "a", "s", " ", "n", "o", " ", "d", "e", "f", "a", "u", "l", "t", " ", "v", "a", "l", "u", "e", " ", "a", "n", "d", " ", "d", "o", "e", "s", " ", "n", "o", "t", " ", "r", "e", "f", "e", "r", "e", "n", "c", "e", " ">>
    \o <<"a", "n", " ", "e", "x", "i", "s", "t", "i", "n", "g", " ", "c", "o", "n", "f", "i", "g", "u", "r", "a", "t", "i", "o", "n", " ", "p", "r", "o", "p", "e", "r", "t", "y", ".", " ", "I", "t", " ", "w", "i", "l", "l", " ", "o", "n", "l", "y", " ", "r", "e", "s", "o", "l", "v", "e", " ", "i", "f", " ">>
    \o <<"p", "r", "o", "v", "i", "d", "e", "d", " ", "v", "i", "a", " ", "e", "n", "v", "i", "r", "o", "n", "m", "e", "n", "t", " ", "v", "a", "r", "i", "a", "b", "l", "e", ".">>

\* _check_env_var_exists(key_path, env_vars)
CheckEnvVarExists(key_path, env_vars) ==
    LET possible_names == PropertyPathToEnvVars(key_path)
    IN \E i \in 1..Len(possible_names) : possible_names[i] \in DOMAIN env_vars

\* check_value(value, path) of _find_placeholders_without_defaults, over the
\* matches ms of value: the warnings it appends
RECURSIVE CheckValueMatches(_, _, _, _)
CheckValueMatches(ms, path, root_config, env_vars) ==
    IF ms = <<>> THEN <<>>
    ELSE LET m == Head(ms)
             rest == CheckValueMatches(Tail(ms), path, root_config, env_vars)
         IN IF ~IsNone(m.default) THEN rest
            ELSE IF ~IsNone(GetNestedValue(root_config, m.key)) THEN rest
            ELSE IF Truthy(env_vars) /\ CheckEnvVarExists(m.key, env_vars.v) THEN rest
            ELSE <<NoDefaultWarning(path, m.key)>> \o rest

CheckValue(value, path, root_config, env_vars) ==
    IF ~Contains(value, <<"$", "{">>) THEN <<>>
    ELSE CheckValueMatches(FindIter(value), path, root_config, env_vars)

\* scan_config(cfg, prefix) of _find_placeholders_without_defaults over the keys
\* ks of cfg, and its loop over the items of a list from the i-th
RECURSIVE NoDefaultScan(_, _, _, _, _)
RECURSIVE NoDefaultScanItems(_, _, _, _, _)
NoDefaultScan(cfg, ks, prefix, root_config, env_vars) ==
    IF ks = <<>> THEN <<>>
    ELSE LET key == Head(ks)
             value == cfg[key]
             current_path == JoinPath(prefix, key)
             here == CASE IsDict(value) ->
                            NoDefaultScan(value.v, KeySeq(DOMAIN value.v), current_path,
                                          root_config, env_vars)
                       [] IsList(value) ->
                            NoDefaultScanItems(value.v, 1, current_path, root_config, env_vars)
                       [] value.t = "str" ->
                            CheckValue(value.v, current_path, root_config, env_vars)
                       [] OTHER -> <<>>
         IN here \o NoDefaultScan(cfg, Tail(ks), prefix, root_config, env_vars)

NoDefaultScanItems(items, i, current_path, root_config, env_vars) ==
    IF i > Len(items) THEN <<>>
    ELSE LET item == items[i]
             item_path == ItemPath(current_path, i - 1)
             here == CASE IsDict(item) ->
                            NoDefaultScan(item.v, KeySeq(DOMAIN item.v), item_path,
                                          root_config, env_vars)
                       [] item.t = "str" ->
                            CheckValue(item.v, item_path, root_config, env_vars)
                       [] OTHER -> <<>>
         IN here \o NoDefaultScanItems(items, i + 1, current_path, root_config, env_vars)

\* _find_placeholders_without_defaults(config, root_config, env_vars, use_system_env)
FindPlaceholdersWithoutDefaults(config, root_config, env_vars, use_system_env) ==
    NoDefaultScan(config, KeySeq(DOMAIN config), <<>>, root_config, env_vars)

\* scan_value(value, path) of _check_vcap_placeholder_warnings over the matches
\* ms: the (path, property_name) pairs it appends to vcap_refs
RECURSIVE VcapRefsOfMatches(_, _)
VcapRefsOfMatches(ms, path) ==
    IF ms = <<>> THEN <<>>
    ELSE IF IsVcapPlaceholder(Head(ms).key)
    THEN <<<<path, Head(ms).key>>>> \o VcapRefsOfMatches(Tail(ms), path)
    ELSE VcapRefsOfMatches(Tail(ms), path)

VcapScanValue(value, path) ==
    IF value.t = "str" /\ Contains(value.v, <<"$", "{">>)
    THEN VcapRefsOfMatches(FindIter(value.v), path)
    ELSE <<>>

\* scan_config(cfg, prefix) of _check_vcap_placeholder_warnings
RECURSIVE VcapScan(_, _, _)
RECURSIVE VcapScanItems(_, _, _)
VcapScan(cfg, ks, prefix) ==
    IF ks = <<>> THEN <<>>
    ELSE LET key == Head(ks)
             value == cfg[key]
             current_path == JoinPath(prefix, key)
             here == CASE IsDict(value) ->
                            VcapScan(value.v, KeySeq(DOMAIN value.v), current_path)
                       [] IsList(value) -> VcapScanItems(value.v, 1, current_path)
                       [] OTHER -> VcapScanValue(value, current_path)
         IN here \o VcapScan(cfg, Tail(ks), prefix)

VcapScanItems(items, i, current_path) ==
    IF i > Len(items) THEN <<>>
    ELSE LET item == items[i]
             item_path == ItemPath(current_path, i - 1)
             here == IF IsDict(item)
                     THEN VcapScan(item.v, KeySeq(DOMAIN item.v), item_path)
                     ELSE VcapScanValue(item, item_path)
         IN here \o VcapScanItems(items, i + 1, current_path)

\* the refs of a sequence of (path, key) pairs whose key starts with prefix
RECURSIVE RefsStartingWith(_, _)
RefsStartingWith(refs, prefix) ==
    IF refs = <<>> THEN <<>>
    ELSE IF StartsWith(Head(refs)[2], prefix)
    THEN <<Head(refs)>> \o RefsStartingWith(Tail(refs), prefix)
    ELSE RefsStartingWith(Tail(refs), prefix)

\* the examples and the extra of a VCAP warning: the first three refs, one to a
\* line, and the count of the others
VcapExamples(refs) ==
    LET shown == SubSeq(refs, 1, IF Len(refs) > 3 THEN 3 ELSE Len(refs))
        examples == [i \in 1..Len(shown) |->
                        <<" ", " ", "-", " ">> \o shown[i][1] \o <<":", " ", "$", "{">> \o shown[i][2] \o <<"}">>]
        extra == IF Len(refs) > 3
                 THEN <<" ", "(", "a", "n", "d", " ">> \o IntStr(Len(refs) - 3) \o <<" ", "m", "o", "r", "e", ")">>
                 ELSE <<>>
    IN Join(examples, <<"\n">>) \o extra

VcapServicesWarning(service_refs) ==
    <<"C", "l", "o", "u", "d", " ", "F", "o", "u", "n", "d", "r", "y", " ", "V", "C", "A", "P", "_", "S", "E", "R", "V", "I", "C", "E", "S", " ", "r", "e", "f", "e", "r", "e", "n", "c", "e", "d", " ", "b", "u", "t", " ", "n", "o", "t", " ", "a", "v", "a", "i", "l", "a", "b", "l", "e", ".", " ">>
    \o <<"T", "h", "i", "s", " ", "t", "y", "p", "i", "c", "a", "l", "l", "y", " ", "i", "n", "d", "i", "c", "a", "t", "e", "s", " ", "t", "h", "e", " ", "c", "o", "n", "f", "i", "g", "u", "r", "a", "t", "i", "o", "n", " ", "i", "s", " ", "d", "e", "s", "i", "g", "n", "e", "d", " ", "f", "o", "r", " ", "C", "l", "o", "u", "d", " ", "F", "o", "u", "n", "d", "r", "y", " ">>
    \o <<"a", "n", "d", " ", "m", "a", "y", " ", "n", "o", "t", " ", "w", "o", "r", "k", " ", "i", "n", " ", "l", "o", "c", "a", "l", " ", "d", "e", "v", "e", "l", "o", "p", "m", "e", "n", "t", " ", "w", "i", "t", "h", "o", "u", "t", " ", "p", "r", "o", "v", "i", "d", "i", "n", "g", " ", "d", "e", "f", "a", "u", "l", "t", "s", " ", "o", "r", " ">>
    \o <<"s", "e", "t", "t", "i", "n", "g", " ", "t", "h", "e", " ", "V", "C", "A", "P", "_", "S", "E", "R", "V", "I", "C", "E", "S", " ", "e", "n", "v", "i", "r", "o", "n", "m", "e", "n", "t", " ", "v", "a", "r", "i", "a", "b", "l", "e", ".">> \o <<"\n">>
    \o VcapExamples(service_refs)

VcapApplicationWarning(app_refs) ==
    <<"C", "l", "o", "u", "d", " ", "F", "o", "u", "n", "d", "r", "y", " ", "V", "C", "A", "P", "_", "A", "P", "P", "L", "I", "C", "A", "T", "I", "O", "N", " ", "r", "e", "f", "e", "r", "e", "n", "c", "e", "d", " ", "b", "u", "t", " ", "n", "o", "t", " ", "a", "v", "a", "i", "l", "a", "b", "l", "e", ".", " ">>
    \o <<"A", "p", "p", "l", "i", "c", "a", "t", "i", "o", "n", " ", "m", "e", "t", "a", "d", "a", "t", "a", " ", "p", "l", "a", "c", "e", "h", "o", "l", "d", "e", "r", "s", " ", "w", "i", "l", "l", " ", "n", "o", "t", " ", "r", "e", "s", "o", "l", "v", "e", " ", "i", "n", " ", "l", "o", "c", "a", "l", " ", "d", "e", "v", "e", "l", "o", "p", "m", "e", "n", "t", ".">>
    \o <<"\n">> \o VcapExamples(app_refs)

\* _check_vcap_placeholder_warnings(config)
CheckVcapPlaceholderWarnings(config) ==
    LET vcap_refs == VcapScan(config, KeySeq(DOMAIN config), <<>>)
        service_refs == RefsStartingWith(vcap_refs, <<"v", "c", "a", "p", ".", "s", "e", "r", "v", "i", "c", "e", "s", ".">>)
        app_refs == RefsStartingWith(vcap_refs, <<"v", "c", "a", "p", ".", "a", "p", "p", "l", "i", "c", "a", "t", "i", "o", "n", ".">>)
    IN (IF service_refs # <<>> THEN <<VcapServicesWarning(service_refs)>> ELSE <<>>)
       \o (IF app_refs # <<>> THEN <<VcapApplicationWarning(app_refs)>> ELSE <<>>)

\* the pair of the first match only
UnresolvedOfFirstMatch(s, ms, path) ==
    IF ms = <<>> THEN <<>> ELSE <<<<path, Group0(s, ms[1])>>>>

\* the (path, placeholder) pairs of the matches ms of the text s at a path
UnresolvedOfMatches(s, ms, path) == [i \in 1..Len(ms) |-> <<path, Group0(s, ms[i])>>]

\* _find_unresolved_placeholders(config, path_prefix) over the keys ks of
\* config, and its loop over the items of a list from the i-th
RECURSIVE FindUnresolved(_, _, _)
RECURSIVE FindUnresolvedItems(_, _, _)
FindUnresolved(config, ks, path_prefix) ==
    IF ks = <<>> THEN <<>>
    ELSE LET key == Head(ks)
             value == config[key]
             current_path == JoinPath(path_prefix, key)
             here == CASE IsDict(value) ->
                            FindUnresolved(value.v, KeySeq(DOMAIN value.v), current_path)
                       [] IsList(value) -> FindUnresolvedItems(value.v, 1, current_path)
                       [] value.t = "str" ->
                            UnresolvedOfMatches(value.v, FindIter(value.v), current_path)
                       [] OTHER -> <<>>
         IN here \o FindUnresolved(config, Tail(ks), path_prefix)

FindUnresolvedItems(items, i, current_path) ==
    IF i > Len(items) THEN <<>>
    ELSE LET item == items[i]
             item_path == ItemPath(current_path, i - 1)
             here == CASE item.t = "str" ->
                            UnresolvedOfMatches(item.v, FindIter(item.v), item_path)
                       [] IsDict(item) ->
                            FindUnresolved(item.v, KeySeq(DOMAIN item.v), item_path)
                       [] OTHER -> <<>>
         IN here \o FindUnresolvedItems(items, i + 1, current_path)

FindUnresolvedPlaceholders(config) == FindUnresolved(config, KeySeq(DOMAIN config), <<>>)

\* f"Unresolved placeholder at {path}: {placeholder}"
UnresolvedWarning(path, placeholder) ==
    <<"U", "n", "r", "e", "s", "o", "l", "v", "e", "d", " ", "p", "l", "a", "c", "e", "h", "o", "l", "d", "e", "r", " ", "a", "t", " ">> \o path \o <<":", " ">> \o placeholder

-----------------------------------------------------------------------------
(* placeholders.py: resolve_placeholders *)

\* _deep_copy_config(config): an equal tree, built anew
RECURSIVE DeepCopyConfig(_)
DeepCopyConfig(config) ==
    Computed([key \in DOMAIN config |->
        CASE IsDict(config[key]) -> MapV(DeepCopyConfig(config[key].v))
          [] IsList(config[key]) ->
                ListV(ComputedSeq([i \in 1..Len(config[key].v) |->
                        IF IsDict(config[key].v[i])
                        THEN MapV(DeepCopyConfig(config[key].v[i].v))
                        ELSE config[key].v[i]]))
          [] OTHER -> config[key]])

\* resolve_placeholders up to its loop: <<result, warnings, vcap_config>>
ResolveStart(config, env_vars, use_system_env, vcap_services_json, vcap_application_json, environ) ==
    LET result == DeepCopyConfig(config)
        no_default_warnings ==
            FindPlaceholdersWithoutDefaults(result, result, env_vars, use_system_env)
        vcap_config ==
            IF use_system_env \/ Truthy(vcap_services_json) \/ Truthy(vcap_application_json)
            THEN GetVcapConfig(vcap_services_json, vcap_application_json, environ)
            ELSE EmptyFn
        vcap_available == \/ IsVcapAvailable(environ)
                          \/ Truthy(vcap_services_json)
                          \/ Truthy(vcap_application_json)
        vcap_warnings == IF ~vcap_available THEN CheckVcapPlaceholderWarnings(result)
                         ELSE <<>>
    IN <<result, no_default_warnings \o vcap_warnings, vcap_config>>

\* the body of the loop of resolve_placeholders: <<result, changed>>
ResolveIteration(result, env_vars, use_system_env, vcap_config, environ) ==
    ResolvePass(result, Lookup(result, env_vars, use_system_env, vcap_config, environ))

\* resolve_placeholders after its loop: the warnings of the remaining placeholders
ResolveRemaining(result) ==
    LET remaining == FindUnresolvedPlaceholders(result)
    IN [i \in 1..Len(remaining) |-> UnresolvedWarning(remaining[i][1], remaining[i][2])]

\* the loop of resolve_placeholders with n passes made: the result it ends with
RECURSIVE ResolveLoop(_, _, _, _, _, _, _)
ResolveLoop(result, n, max_iterations, env_vars, use_system_env, vcap_config, environ) ==
    IF n >= max_iterations THEN result
    ELSE LET pass == ResolveIteration(result, env_vars, use_system_env, vcap_config, environ)
         IN IF ~pass[2] THEN pass[1]
            ELSE ResolveLoop(pass[1], n + 1, max_iterations, env_vars, use_system_env,
                             vcap_config, environ)

\* the end of resolve_placeholders, given what its start and its loop computed
ResolveReturn(start, result) == <<result, start[2] \o ResolveRemaining(result)>>

\* resolve_placeholders from its loop on, given what its start computed
ResolveFrom(start, max_iterations, env_vars, use_system_env, environ) ==
    ResolveReturn(start, ResolveLoop(start[1], 0, max_iterations, env_vars,
                                     use_system_env, start[3], environ))

\* resolve_placeholders(config, max_iterations, env_vars, use_system_env,
\* vcap_services_json, vcap_application_json): <<result, warnings>>
ResolvePlaceholders(config, max_iterations, env_vars, use_system_env, vcap_services_json, vcap_application_json, environ) ==
    ResolveFrom(ResolveStart(config, env_vars, use_system_env, vcap_services_json,
                             vcap_application_json, environ),
                max_iterations, env_vars, use_system_env, environ)

-----------------------------------------------------------------------------
(* The placeholder specification: resolve_placeholders is called on a config,
   with override variables, an os.environ and VCAP texts, and runs pass by pass *)

MaxChain == 10

KA == <<"a">>
KB == <<"b">>
KC == <<"c">>
KR == <<"r">>

\* a value that is the placeholder of a key, and one with a default
Ref(key) == StrV(<<"$", "{">> \o key \o <<"}">>)
RefOr(key, default) == StrV(<<"$", "{">> \o key \o <<":">> \o default \o <<"}">>)

\* the configs of references: a, b and c, each absent or set to a literal, a
\* number, null, or a text with a placeholder (m is a key of no config; no text
\* refers to a key of the config from between other characters, for a cycle of
\* such texts doubles in length with every pass)
RefValues ==
    {StrV(<<"v">>), IntV(7), NullV, Ref(KA), Ref(KB), Ref(KC), Ref(<<"m">>),
     RefOr(KB, <<"d">>), RefOr(<<"m">>, <<>>), StrV(<<"x", "$", "{", "m", ":", "d", "}", "y">>)}

RefConfigs == UNION {[ks -> RefValues] : ks \in SUBSET {KA, KB, KC}}

\* the configs whose placeholder indexes into a list: items[0] of two texts,
\* servers[1].port of two mappings, matrix[0][1] of a list of lists, and an
\* index past the end with a default
ITEMS == <<"i", "t", "e", "m", "s">>
SERVERS == <<"s", "e", "r", "v", "e", "r", "s">>
MATRIX == <<"m", "a", "t", "r", "i", "x">>
ItemsConfig == Two(ITEMS, ListV(<<StrV(<<"f", "i", "r", "s", "t">>), StrV(<<"s", "e", "c", "o", "n", "d">>)>>), KR, Ref(<<"i", "t", "e", "m", "s", "[", "0", "]">>)).v
ServersConfig ==
    Two(SERVERS, ListV(<<One(<<"p", "o", "r", "t">>, IntV(8080)), One(<<"p", "o", "r", "t">>, IntV(8081))>>),
        KR, Ref(<<"s", "e", "r", "v", "e", "r", "s", "[", "1", "]", ".", "p", "o", "r", "t">>)).v
MatrixConfig ==
    Two(MATRIX, ListV(<<ListV(<<IntV(1), IntV(2)>>), ListV(<<IntV(4), IntV(5)>>)>>),
        KR, Ref(<<"m", "a", "t", "r", "i", "x", "[", "0", "]", "[", "1", "]">>)).v
PastEndConfig == Two(ITEMS, ListV(<<StrV(<<"f", "i", "r", "s", "t">>)>>), KR, RefOr(<<"i", "t", "e", "m", "s", "[", "5", "]">>, <<"d">>)).v
IndexConfigs == {ItemsConfig, ServersConfig, MatrixConfig, PastEndConfig}

\* the chain of length n: k0 is a literal and every ki refers to the one before
ChainKey(i) == <<"k">> \o IntStr(i)
ChainConfig(n) ==
    [key \in {ChainKey(i) : i \in 0..n} |->
        IF key = ChainKey(0) THEN StrV(<<"v", "a", "l", "u", "e">>)
        ELSE Ref(ChainKey((CHOOSE i \in 1..n : key = ChainKey(i)) - 1))]

ChainConfigs == {ChainConfig(n) : n \in 0..MaxChain}

DATABASE == <<"d", "a", "t", "a", "b", "a", "s", "e">>
DATABASE_HOST == <<"D", "A", "T", "A", "B", "A", "S", "E", "_", "H", "O", "S", "T">>
VCAP_APPLICATION_NAME == <<"V", "C", "A", "P", "_", "A", "P", "P", "L", "I", "C", "A", "T", "I", "O", "N", "_", "N", "A", "M", "E">>

M == <<"m">>
DASHED == <<"a", "-", "b">>
DATABASE_HOST_PATH == <<"d", "a", "t", "a", "b", "a", "s", "e", ".", "h", "o", "s", "t">>
APPLICATION_NAME_PATH == <<"v", "c", "a", "p", ".", "a", "p", "p", "l", "i", "c", "a", "t", "i", "o", "n", ".", "n", "a", "m", "e">>
SERVICE_URI_PATH == <<"v", "c", "a", "p", ".", "s", "e", "r", "v", "i", "c", "e", "s", ".", "d", "b", ".", "u", "r", "i">>

\* the configs whose placeholders have values in several sources, and the
\* configs with placeholders in nested mappings and in lists
SourceConfigs ==
    {Two(DATABASE, One(<<"h", "o", "s", "t">>, StrV(<<"l", "o", "c", "a", "l", "h", "o", "s", "t">>)), <<"u", "r", "l">>, Ref(DATABASE_HOST_PATH)).v,
     One(KR, Ref(DATABASE_HOST_PATH)).v,
     Two(DASHED, StrV(<<"c", "f", "g">>), KR, Ref(DASHED)).v,
     One(KR, RefOr(DASHED, <<"d">>)).v,
     Two(KR, Ref(APPLICATION_NAME_PATH),
         VCAP, One(APPLICATION_KEY, One(NAME, StrV(<<"c", "f", "g">>)))).v,
     One(KR, Ref(APPLICATION_NAME_PATH)).v,
     One(KR, RefOr(SERVICE_URI_PATH, <<"d">>)).v,
     Two(KA, Ref(SERVICE_URI_PATH), KB, Ref(APPLICATION_NAME_PATH)).v,
     Two(<<"o">>, One(KR, Ref(M)), <<"l">>, ListV(<<Ref(M), One(KR, Ref(M)), IntV(7)>>)).v,
     One(<<"o">>, Two(KA, Ref(<<"o", ".", "b">>), KB, Ref(<<"o", ".", "a">>))).v,
     Two(<<"o">>, One(KA, StrV(<<"v">>)), KR, Ref(<<"o">>)).v,
     Two(KA, StrV(<<"x", "$", "{", "b", "}", "y">>), KB, StrV(<<"v">>)).v,
     Two(KA, StrV(<<"$", "{", "b", "}", "-", "$", "{", "b", "}">>), KB, Ref(M)).v,
     Two(KR, StrV(<<"$", "{", "m", "}", "$", "{", "m", "}">>), KA, StrV(<<"h", "t", "t", "p", ":", "/", "/", "$", "{", "m", "}", ":", "8", "0", "8", "0">>)).v}

\* a dict of one variable
OneVar(name, text) == [k \in {name} |-> text]

\* the env_vars arguments
OverrideEnvs ==
    {NullV, MapV(EmptyFn), MapV(OneVar(DATABASE_HOST, <<"p", "r", "o", "d", "-", "d", "b">>)),
     MapV(OneVar(<<"A", "_", "B">>, <<"o", "v", "r">>)), MapV(OneVar(<<"A", "-", "B">>, <<"o", "v", "d">>)),
     MapV(OneVar(VCAP_APPLICATION_NAME, <<"e", "n", "v">>))}

\* the contents of os.environ
Environs ==
    {EmptyFn, OneVar(DATABASE_HOST, <<"s", "y", "s", "-", "d", "b">>), OneVar(<<"A", "-", "B">>, <<"s", "y", "s">>),
     OneVar(<<"A", "_", "B">>, <<"s", "y", "2">>), OneVar(VCAP_APPLICATION, APPLICATION_JSON),
     OneVar(VCAP_APPLICATION, BROKEN_JSON), OneVar(VCAP_SERVICES, NAMELESS_SERVICES_JSON)}

\* the vcap_services_json and vcap_application_json arguments
VcapServicesTexts == {NullV, StrV(SERVICES_JSON)}
VcapApplicationTexts == {NullV, StrV(APPLICATION_JSON), StrV(ARRAY_JSON)}

PlaceholdersInit ==
    /\ \/ /\ pconfig \in RefConfigs \cup ChainConfigs \cup IndexConfigs
          /\ penv_vars = NullV
          /\ penviron = EmptyFn
          /\ puse_system_env \in BOOLEAN
          /\ pvcap_services_json = NullV
          /\ pvcap_application_json = NullV
       \/ /\ pconfig \in SourceConfigs
          /\ penv_vars \in OverrideEnvs
          /\ penviron \in Environs
          /\ puse_system_env \in BOOLEAN
          /\ pvcap_services_json \in VcapServicesTexts
          /\ pvcap_application_json \in VcapApplicationTexts
    /\ ppc = "called"
    /\ presult = EmptyFn
    /\ pwarnings = <<>>
    /\ pvcap_config = EmptyFn
    /\ piter = 0
    /\ pchanged = FALSE
    /\ NotPlaceholdersIdle

\* resolve_placeholders from its call to the top of its loop
EnterResolvePlaceholders ==
    /\ ppc = "called"
    /\ LET start == ResolveStart(pconfig, penv_vars, puse_system_env, pvcap_services_json,
                                 pvcap_application_json, penviron)
       IN /\ presult' = start[1]
          /\ pwarnings' = start[2]
          /\ pvcap_config' = start[3]
    /\ ppc' = "passes"
    /\ UNCHANGED <<pconfig, penv_vars, penviron, puse_system_env, pvcap_services_json,
                   pvcap_application_json, piter, pchanged>>
    /\ UNCHANGED notPlaceholderVars

\* one iteration of the loop: entered while passes are left and the pass before,
\* if any, changed something
ResolvePassStep ==
    /\ ppc = "passes"
    /\ piter < MAX_ITERATIONS
    /\ piter = 0 \/ pchanged
    /\ LET pass == ResolveIteration(presult, penv_vars, puse_system_env, pvcap_config,
                                    penviron)
       IN /\ presult' = pass[1]
          /\ pchanged' = pass[2]
    /\ piter' = piter + 1
    /\ UNCHANGED <<pconfig, penv_vars, penviron, puse_system_env, pvcap_services_json,
                   pvcap_application_json, ppc, pwarnings, pvcap_config>>
    /\ UNCHANGED notPlaceholderVars

\* the loop is left: the remaining placeholders are reported, and
\* resolve_placeholders returns (presult, pwarnings)
ReturnResolvePlaceholders ==
    /\ ppc = "passes"
    /\ piter >= MAX_ITERATIONS \/ (piter > 0 /\ ~pchanged)
    /\ pwarnings' = pwarnings \o ResolveRemaining(presult)
    /\ ppc' = "done"
    /\ UNCHANGED <<pconfig, penv_vars, penviron, puse_system_env, pvcap_services_json,
                   pvcap_application_json, presult, pvcap_config, piter, pchanged>>
    /\ UNCHANGED notPlaceholderVars

PlaceholdersNext ==
    \/ EnterResolvePlaceholders
    \/ ResolvePassStep
    \/ ReturnResolvePlaceholders

SpecPlaceholders == PlaceholdersInit /\ [][PlaceholdersNext]_vars

\* resolve_placeholders is sequential code: a call that can take a step takes
\* it. This is weak fairness of PlaceholdersNext, WF_vars(PlaceholdersNext),
\* written out: a step is enabled exactly while the call is not done (one of the
\* guards of the three steps holds at "called" and at "passes", and each step
\* changes ppc or piter)
SpecPlaceholdersFair ==
    /\ SpecPlaceholders
    /\ []<>(ppc = "done") \/ []<><<PlaceholdersNext>>_vars

\* the loop taken step by step ends as resolve_placeholders computed at once
PlaceholdersStepsAgree ==
    ppc = "done" =>
        <<presult, pwarnings>> =
            ResolvePlaceholders(pconfig, MAX_ITERATIONS, penv_vars, puse_system_env,
                                pvcap_services_json, pvcap_application_json, penviron)

-----------------------------------------------------------------------------
(* Placeholders and their sources, read off the arguments of the call *)

\* <<path, text>> for the texts of a tree: the values of mappings, the items of
\* lists and the values of the mappings in lists
RECURSIVE TextLeaves(_, _)
TextLeaves(value, path) ==
    CASE value.t = "str" -> {<<path, value.v>>}
      [] value.t = "map" ->
            UNION {TextLeaves(value.v[k], JoinPath(path, k)) : k \in DOMAIN value.v}
      [] value.t = "list" ->
            UNION {IF value.v[i].t = "list" THEN {}
                   ELSE TextLeaves(value.v[i], ItemPath(path, i - 1)) : i \in 1..Len(value.v)}
      [] OTHER -> {}

ConfigLeaves(config) == TextLeaves(MapV(config), <<>>)

\* the text of the tree at a path
TextAt(config, path) == (CHOOSE leaf \in ConfigLeaves(config) : leaf[1] = path)[2]

\* how often x is in the list
Count(lst, x) == Cardinality({i \in 1..Len(lst) : lst[i] = x})

\* the text is one placeholder and nothing else
WholePlaceholder(text) == MatchAt(text, 1).ok /\ MatchAt(text, 1).end = Len(text)

\* the override variables, {} for None
Overrides == IF penv_vars.t = "map" THEN penv_vars.v ELSE EmptyFn

\* a candidate name of the key is an override variable, a system variable
OverrideHas(key) ==
    \E i \in 1..Len(PropertyPathToEnvVars(key)) :
        PropertyPathToEnvVars(key)[i] \in DOMAIN Overrides
SystemHas(key) ==
    /\ puse_system_env
    /\ \E i \in 1..Len(PropertyPathToEnvVars(key)) :
        PropertyPathToEnvVars(key)[i] \in DOMAIN penviron

\* the platform metadata under a key of the vcap namespace, and the node of the
\* merged tree under a key; Absent if there is none
PlatformValue(key) ==
    IF IsVcapPlaceholder(key) THEN NodeAt(MapV(pvcap_config), Split(key, "."))
    ELSE Absent
TreeValue(key) == NodeAt(MapV(pconfig), Split(key, "."))

PlatformHas(key) == PlatformValue(key).t # "absent"
TreeHas(key) == TreeValue(key).t # "absent"

\* the key is found in none of the sources
NoSource(key) == ~OverrideHas(key) /\ ~SystemHas(key) /\ ~PlatformHas(key) /\ ~TreeHas(key)

\* the first pass has been made: every placeholder of the config has been
\* looked up once, in the config as it was passed in
FirstPassMade == ppc = "passes" /\ piter = 1

\* C6: a whole-placeholder text becomes the value of the highest source that has
\* the key: an override variable under any candidate name, else a system variable,
\* else the platform metadata, else the value of the merged tree.
C6_SourcePrecedence ==
    FirstPassMade =>
        \A leaf \in ConfigLeaves(pconfig) :
            WholePlaceholder(leaf[2]) =>
                LET key == MatchAt(leaf[2], 1).key
                    out == TextAt(presult, leaf[1])
                    env == EnvValueByPrecedence(key, Overrides, puse_system_env, penviron)
                IN IF env.t = "str" THEN out = env.v
                   ELSE IF PlatformHas(key) THEN out = PyStr(PlatformValue(key))
                   ELSE (TreeHas(key) /\ TreeValue(key).t # "null") =>
                            out = PyStr(TreeValue(key))

\* C8: a whole-placeholder text with a default becomes the default if the key is
\* found in no source, and the value of the merged tree, not the default, if the
\* key is present in the tree and in no higher source.
C8_DefaultIffNoSource ==
    FirstPassMade =>
        \A leaf \in ConfigLeaves(pconfig) :
            (WholePlaceholder(leaf[2]) /\ MatchAt(leaf[2], 1).default.t = "str") =>
                LET key == MatchAt(leaf[2], 1).key
                    out == TextAt(presult, leaf[1])
                IN /\ NoSource(key) => out = MatchAt(leaf[2], 1).default.v
                   /\ (TreeHas(key) /\ ~OverrideHas(key) /\ ~SystemHas(key)
                          /\ ~PlatformHas(key)) => out = PyStr(TreeValue(key))

\* the value a chain of whole-placeholder texts without defaults ends in, followed
\* from a key through at most n references: a text free of placeholders or a
\* number; Absent if the texts from the key on are no such chain
RECURSIVE ChainEnd(_, _)
ChainEnd(key, n) ==
    LET node == TreeValue(key)
    IN IF node.t = "int" \/ (node.t = "str" /\ ~Contains(node.v, <<"$", "{">>)) THEN node
       ELSE IF /\ node.t = "str"
               /\ WholePlaceholder(node.v)
               /\ MatchAt(node.v, 1).default.t = "null"
               /\ n > 0
       THEN ChainEnd(MatchAt(node.v, 1).key, n - 1)
       ELSE Absent

\* the keys the chain from a key refers to
RECURSIVE ChainRefs(_, _)
ChainRefs(key, n) ==
    LET node == TreeValue(key)
    IN IF node.t = "str" /\ WholePlaceholder(node.v) /\ n > 0
       THEN {MatchAt(node.v, 1).key} \cup ChainRefs(MatchAt(node.v, 1).key, n - 1)
       ELSE {}

\* the text at the path starts a chain of at most MAX_ITERATIONS references that
\* ends in a literal, and no key of it has a value in a higher source
ChainStart(path) ==
    /\ TreeValue(path).t = "str"
    /\ Contains(TreeValue(path).v, <<"$", "{">>)
    /\ ChainEnd(path, MAX_ITERATIONS).t # "absent"
    /\ \A key \in ChainRefs(path, MAX_ITERATIONS) :
          ~OverrideHas(key) /\ ~SystemHas(key) /\ ~PlatformHas(key)

\* the config is made of chains and literals only, with one chain at least
OnlyChains ==
    /\ \E leaf \in ConfigLeaves(pconfig) : ChainStart(leaf[1])
    /\ \A leaf \in ConfigLeaves(pconfig) :
          ChainStart(leaf[1]) \/ ~Contains(leaf[2], <<"$", "{">>)

\* is_vcap_available() or a VCAP text passed in: no VCAP warning is made
PlatformSupplied ==
    \/ IsVcapAvailable(penviron)
    \/ Truthy(pvcap_services_json)
    \/ Truthy(pvcap_application_json)

\* a chain refers to a key of the vcap namespace
ChainInVcapNamespace ==
    \E leaf \in ConfigLeaves(pconfig) :
        \E key \in ChainRefs(leaf[1], MAX_ITERATIONS) : IsVcapPlaceholder(key)

\* every value of a chain is the text of the literal the chain ends in
ChainValuesResolved ==
    \A leaf \in ConfigLeaves(pconfig) :
        ChainStart(leaf[1]) =>
            TextAt(presult, leaf[1]) = PyStr(ChainEnd(leaf[1], MAX_ITERATIONS))

\* C7 as stated: every value of an acyclic chain within the iteration cap ends
\* equal to the terminal literal, and a config of chains draws no warning at all.
C7_ChainsZeroWarnings ==
    ppc = "done" =>
        /\ ChainValuesResolved
        /\ OnlyChains => pwarnings = <<>>

\* C7: every value of an acyclic chain within the iteration cap ends equal to the
\* terminal literal; a config of chains draws no warning, unless a chain refers
\* to a key of the vcap namespace while no platform metadata is supplied.
C7_ChainsResolve ==
    ppc = "done" =>
        /\ ChainValuesResolved
        /\ (OnlyChains /\ (PlatformSupplied \/ ~ChainInVcapNamespace)) => pwarnings = <<>>

\* the chain of ten references has resolved: k10 holds the literal of k0, after
\* more than one pass and without a warning
C7_Witness ==
    /\ ppc = "done"
    /\ pconfig = ChainConfig(10)
    /\ ChainStart(ChainKey(10))
    /\ presult[ChainKey(10)] = pconfig[ChainKey(0)]
    /\ presult[ChainKey(1)] = pconfig[ChainKey(0)]
    /\ piter > 2
    /\ pwarnings = <<>>

\* the matches of a text that are the placeholder text pt
OccurrencesIn(text, pt) ==
    {i \in 1..Len(FindIter(text)) : Group0(text, FindIter(text)[i]) = pt}

\* the match has no default and its key is found in no source
Sourceless(m) == m.default.t = "null" /\ NoSource(m.key)

\* the warning names the path together with the placeholder text
Names(w, path, pt) == Contains(w, <<" ">> \o path \o <<":", " ">> \o pt)

RefersTo(path) ==
    {leaf[1] : leaf \in {l \in ConfigLeaves(pconfig) :
        \E i \in 1..Len(FindIter(TextAt(pconfig, path))) :
            /\ FindIter(TextAt(pconfig, path))[i].key = l[1]
            /\ TreeValue(l[1]).t = "str"
            /\ ~OverrideHas(l[1]) /\ ~SystemHas(l[1]) /\ ~PlatformHas(l[1])}}

\* the paths reached from the paths of S by references
RECURSIVE ReachedFrom(_)
ReachedFrom(S) ==
    LET more == S \cup UNION {RefersTo(path) : path \in S}
    IN IF more = S THEN S ELSE ReachedFrom(more)

\* the text at the path is on a cycle of references
OnReferenceCycle(path) == path \in ReachedFrom(RefersTo(path))

MentionsCircular(w) == Contains(Lower(w), <<"c", "i", "r", "c", "u", "l", "a", "r">>)

\* C10: when the references of the placeholders form a cycle, some warning
\* mentions a circular reference, and a text that refers to itself only is left
\* as it was; when they form none, no warning mentions one.
C10_CircularWarning ==
    ppc = "done" =>
        /\ (\E leaf \in ConfigLeaves(pconfig) : OnReferenceCycle(leaf[1]))
              => \E n \in 1..Len(pwarnings) : MentionsCircular(pwarnings[n])
        /\ \A leaf \in ConfigLeaves(pconfig) :
              (leaf[2] = Ref(leaf[1]).v /\ OnReferenceCycle(leaf[1]))
                  => TextAt(presult, leaf[1]) = leaf[2]
        /\ (\A leaf \in ConfigLeaves(pconfig) : ~OnReferenceCycle(leaf[1]))
              => \A n \in 1..Len(pwarnings) : ~MentionsCircular(pwarnings[n])

-----------------------------------------------------------------------------
(* expressions.py: profile expressions *)

WHITESPACE == {" ", "\t", "\n", "\r"}

\* char.isspace()
IsSpace(char) == char \in WHITESPACE

\* char.isalnum() or char in "-_.+@"
IsProfileNameChar(char) ==
    \/ \E n \in 1..Len(LOWERCASE) : LOWERCASE[n] = char
    \/ \E n \in 1..Len(UPPERCASE) : UPPERCASE[n] = char
    \/ \E n \in 1..Len(DIGITS) : DIGITS[n] = char
    \/ char \in {"-", "_", ".", "+", "@"}

\* str.lstrip() and str.strip()
RECURSIVE LStrip(_)
LStrip(s) == IF s # <<>> /\ IsSpace(Head(s)) THEN LStrip(Tail(s)) ELSE s
RECURSIVE RStrip(_)
RStrip(s) == IF s # <<>> /\ IsSpace(s[Len(s)]) THEN RStrip(SubSeq(s, 1, Len(s) - 1)) ELSE s
Strip(s) == RStrip(LStrip(s))

\* Token(type, value, position); position counts from 0
Token(type, value, position) == [type |-> type, value |-> value, position |-> position]

\* TokenType.name, as text
TokenTypeName(type) ==
    CASE type = "PROFILE" -> <<"P", "R", "O", "F", "I", "L", "E">>
      [] type = "NOT" -> <<"N", "O", "T">>
      [] type = "AND" -> <<"A", "N", "D">>
      [] type = "OR" -> <<"O", "R">>
      [] type = "LPAREN" -> <<"L", "P", "A", "R", "E", "N">>
      [] type = "RPAREN" -> <<"R", "P", "A", "R", "E", "N">>
      [] type = "EOF" -> <<"E", "O", "F">>

\* ProfileExpressionError(message): str(e)
ProfileExpressionError(message) == <<"I", "n", "v", "a", "l", "i", "d", " ", "p", "r", "o", "f", "i", "l", "e", " ", "e", "x", "p", "r", "e", "s", "s", "i", "o", "n", ":", " ">> \o message

\* Lexer._skip_whitespace: the first index from i on that holds no whitespace
RECURSIVE SkipWhitespace(_, _)
SkipWhitespace(expression, i) ==
    IF i <= Len(expression) /\ IsSpace(expression[i])
    THEN SkipWhitespace(expression, i + 1) ELSE i

\* Lexer._read_profile_name: the first index from i on that holds no name character
RECURSIVE ReadProfileName(_, _)
ReadProfileName(expression, i) ==
    IF i <= Len(expression) /\ IsProfileNameChar(expression[i])
    THEN ReadProfileName(expression, i + 1) ELSE i

\* Lexer.tokens from index i on (self.pos = i - 1), the tokens so far in toks:
\* [ok |-> TRUE, tokens] or the ProfileExpressionError, [ok |-> FALSE, message]
RECURSIVE LexerTokensFrom(_, _, _)
LexerTokensFrom(expression, i, toks) ==
    LET j == SkipWhitespace(expression, i)
    IN IF j > Len(expression)
       THEN [ok |-> TRUE, tokens |-> Append(toks, Token("EOF", <<>>, j - 1)), message |-> <<>>]
       ELSE LET char == expression[j]
                one(type) == LexerTokensFrom(expression, j + 1,
                                             Append(toks, Token(type, <<char>>, j - 1)))
            IN IF char = "!" THEN one("NOT")
               ELSE IF char = "&" THEN one("AND")
               ELSE IF char = "|" THEN one("OR")
               ELSE IF char = "(" THEN one("LPAREN")
               ELSE IF char = ")" THEN one("RPAREN")
               ELSE IF IsProfileNameChar(char)
               THEN LET k == ReadProfileName(expression, j)
                    IN LexerTokensFrom(expression, k,
                           Append(toks, Token("PROFILE", SubSeq(expression, j, k - 1), j - 1)))
               ELSE [ok |-> FALSE, tokens |-> <<>>,
                     message |-> <<"U", "n", "e", "x", "p", "e", "c", "t", "e", "d", " ", "c", "h", "a", "r", "a", "c", "t", "e", "r", " ", "a", "t", " ", "p", "o", "s", "i", "t", "i", "o", "n", " ">> \o IntStr(j - 1)
                                 \o <<":", " ", "'">> \o <<char>> \o <<"'">>]

\* list(Lexer(expression).tokens())
LexerTokens(expression) == LexerTokensFrom(expression, 1, <<>>)

\* the AST nodes ProfileName(name), NotExpr(operand), AndExpr(left, right) and
\* OrExpr(left, right); NotExpr keeps its operand in left
ProfileName(name) == [k |-> "name", name |-> name, left |-> <<>>, right |-> <<>>]
NotExpr(operand) == [k |-> "not", name |-> <<>>, left |-> operand, right |-> <<>>]
AndExpr(left, right) == [k |-> "and", name |-> <<>>, left |-> left, right |-> right]
OrExpr(left, right) == [k |-> "or", name |-> <<>>, left |-> left, right |-> right]

\* what a parsing method leaves: the expression and the parser's position (an
\* index into the tokens), or the ProfileExpressionError it raised
Parsed(expr, pos) == [ok |-> TRUE, expr |-> expr, pos |-> pos, message |-> <<>>]
ParseError(message) == [ok |-> FALSE, expr |-> <<>>, pos |-> 0, message |-> message]

\* Parser._advance: the position after it (current stays on the last token)
Advance(tokens, pos) == IF pos < Len(tokens) THEN pos + 1 ELSE pos

RECURSIVE ParseOrExpr(_, _)
RECURSIVE ParseOrRest(_, _, _)
RECURSIVE ParseAndExpr(_, _)
RECURSIVE ParseAndRest(_, _, _)
RECURSIVE ParseUnary(_, _)
RECURSIVE ParsePrimary(_, _)

\* Parser._parse_or_expr
ParseOrExpr(tokens, pos) ==
    LET left == ParseAndExpr(tokens, pos)
    IN IF left.ok THEN ParseOrRest(tokens, left.pos, left.expr) ELSE left

\* the loop of _parse_or_expr mutated to take a unary expression as the right
\* operand of "|", so that "&" may not follow it without parentheses
ParseOrRestNoMixing(tokens, pos, left) ==
    IF tokens[pos].type = "OR"
    THEN LET right == ParseUnary(tokens, Advance(tokens, pos))
         IN IF right.ok THEN ParseOrRest(tokens, right.pos, OrExpr(left, right.expr))
            ELSE right
    ELSE Parsed(left, pos)

\* the loop "while self.current.type == TokenType.OR" of _parse_or_expr
ParseOrRest(tokens, pos, left) ==
    IF tokens[pos].type = "OR"
    THEN LET right == ParseAndExpr(tokens, Advance(tokens, pos))
         IN IF right.ok THEN ParseOrRest(tokens, right.pos, OrExpr(left, right.expr))
            ELSE right
    ELSE Parsed(left, pos)

\* Parser._parse_and_expr
ParseAndExpr(tokens, pos) ==
    LET left == ParseUnary(tokens, pos)
    IN IF left.ok THEN ParseAndRest(tokens, left.pos, left.expr) ELSE left

\* the loop "while self.current.type == TokenType.AND" of _parse_and_expr
ParseAndRest(tokens, pos, left) ==
    IF tokens[pos].type = "AND"
    THEN LET right == ParseUnary(tokens, Advance(tokens, pos))
         IN IF right.ok THEN ParseAndRest(tokens, right.pos, AndExpr(left, right.expr))
            ELSE right
    ELSE Parsed(left, pos)

\* Parser._parse_unary
ParseUnary(tokens, pos) ==
    IF tokens[pos].type = "NOT"
    THEN LET operand == ParseUnary(tokens, Advance(tokens, pos))
         IN IF operand.ok THEN Parsed(NotExpr(operand.expr), operand.pos) ELSE operand
    ELSE ParsePrimary(tokens, pos)

\* Parser._parse_primary, with the _expect(TokenType.RPAREN) it makes
ParsePrimary(tokens, pos) ==
    IF tokens[pos].type = "PROFILE"
    THEN Parsed(ProfileName(tokens[pos].value), Advance(tokens, pos))
    ELSE IF tokens[pos].type = "LPAREN"
    THEN LET expr == ParseOrExpr(tokens, Advance(tokens, pos))
         IN IF ~expr.ok THEN expr
            ELSE IF tokens[expr.pos].type # "RPAREN"
            THEN ParseError(<<"E", "x", "p", "e", "c", "t", "e", "d", " ", "R", "P", "A", "R", "E", "N", " ", "a", "t", " ", "p", "o", "s", "i", "t", "i", "o", "n", " ">>
                            \o IntStr(tokens[expr.pos].position) \o <<",", " ", "g", "o", "t", " ">>
                            \o TokenTypeName(tokens[expr.pos].type))
            ELSE Parsed(expr.expr, Advance(tokens, expr.pos))
    ELSE ParseError(<<"E", "x", "p", "e", "c", "t", "e", "d", " ", "p", "r", "o", "f", "i", "l", "e", " ", "n", "a", "m", "e", " ", "o", "r", " ", "'", "(", "'", " ", "a", "t", " ", "p", "o", "s", "i", "t", "i", "o", "n", " ">>
                    \o IntStr(tokens[pos].position) \o <<",", " ", "g", "o", "t", " ", "'">>
                    \o tokens[pos].value \o <<"'">>)

\* Parser(expression).parse()
ParserParse(expression) ==
    LET parse(lexed) ==
       IF ~lexed.ok THEN ParseError(lexed.message)
       ELSE IF lexed.tokens[1].type = "EOF" THEN ParseError(<<"E", "m", "p", "t", "y", " ", "p", "r", "o", "f", "i", "l", "e", " ", "e", "x", "p", "r", "e", "s", "s", "i", "o", "n">>)
       ELSE LET expr == ParseOrExpr(lexed.tokens, 1)
            IN IF ~expr.ok THEN expr
               ELSE IF lexed.tokens[expr.pos].type # "EOF"
               THEN ParseError(<<"U", "n", "e", "x", "p", "e", "c", "t", "e", "d", " ", "t", "o", "k", "e", "n", " ", "a", "t", " ", "p", "o", "s", "i", "t", "i", "o", "n", " ">>
                               \o IntStr(lexed.tokens[expr.pos].position) \o <<":", " ", "'">>
                               \o lexed.tokens[expr.pos].value \o <<"'">>)
               ELSE expr
    IN parse(LexerTokens(expression))

\* parse_profile_expression(expression)
ParseProfileExpression(expression) == ParserParse(Strip(expression))

\* ProfileExpr.evaluate(active_profiles), active_profiles a set
RECURSIVE Evaluate(_, _)
Evaluate(expr, active_profiles) ==
    CASE expr.k = "name" -> expr.name \in active_profiles
      [] expr.k = "not" -> ~Evaluate(expr.left, active_profiles)
      [] expr.k = "and" -> Evaluate(expr.left, active_profiles)
                           /\ Evaluate(expr.right, active_profiles)
      [] expr.k = "or" -> Evaluate(expr.left, active_profiles)
                          \/ Evaluate(expr.right, active_profiles)

\* __str__ mutated to write no parentheses around & and |
RECURSIVE ExprStrNoParentheses(_)
ExprStrNoParentheses(expr) ==
    CASE expr.k = "name" -> expr.name
      [] expr.k = "not" -> <<"!">> \o ExprStrNoParentheses(expr.left)
      [] expr.k = "and" -> ExprStrNoParentheses(expr.left) \o <<" ", "&", " ">>
                           \o ExprStrNoParentheses(expr.right)
      [] expr.k = "or" -> ExprStrNoParentheses(expr.left) \o <<" ", "|", " ">>
                          \o ExprStrNoParentheses(expr.right)

\* ProfileExpr.__str__
RECURSIVE ExprStr(_)
ExprStr(expr) ==
    CASE expr.k = "name" -> expr.name
      [] expr.k = "not" -> <<"!">> \o ExprStr(expr.left)
      [] expr.k = "and" -> <<"(">> \o ExprStr(expr.left) \o <<" ", "&", " ">>
                           \o ExprStr(expr.right) \o <<")">>
      [] expr.k = "or" -> <<"(">> \o ExprStr(expr.left) \o <<" ", "|", " ">>
                          \o ExprStr(expr.right) \o <<")">>

\* set(active_profiles)
SetOf(lst) == {lst[i] : i \in 1..Len(lst)}

\* what a call that may raise leaves: its value, or the message of the exception
\* (type names the class of the exception, message is str(e))
Returned(value) == [ok |-> TRUE, value |-> value, type |-> "", message |-> <<>>]
Raised(type, message) == [ok |-> FALSE, value |-> <<>>, type |-> type, message |-> message]

\* evaluate_profile_expression(expression, active_profiles)
EvaluateProfileExpression(expression, active_profiles) ==
    LET evaluate(expr) ==
            IF expr.ok THEN Returned(Evaluate(expr.expr, SetOf(active_profiles)))
            ELSE Raised("ProfileExpressionError", ProfileExpressionError(expr.message))
    IN evaluate(ParseProfileExpression(expression))

\* is_simple_profile(expression)
IsSimpleProfile(expression) ==
    LET stripped == Strip(expression)
    IN /\ stripped # <<>>
       /\ \A i \in 1..Len(stripped) : stripped[i] \notin {"!", "&", "|", "(", ")"}

\* matches_profiles answering True for every document
MatchesProfilesAlways(doc, active_profiles) == Returned(TRUE)

\* ConfigDocument.matches_profiles(active_profiles): activation_profile is NullV
\* for None
MatchesProfiles(doc, active_profiles) ==
    IF IsNone(doc.activation_profile) THEN Returned(TRUE)
    ELSE IF IsSimpleProfile(doc.activation_profile.v)
    THEN Returned(InList(doc.activation_profile.v, active_profiles))
    ELSE EvaluateProfileExpression(doc.activation_profile.v, active_profiles)

\* get_applicable_documents(documents, active_profiles) from document i on, the
\* ones kept so far in kept
RECURSIVE ApplicableFrom(_, _, _, _)
ApplicableFrom(documents, i, active_profiles, kept) ==
    IF i > Len(documents) THEN Returned(kept)
    ELSE LET keep(m) ==
                 IF ~m.ok THEN m
                 ELSE ApplicableFrom(documents, i + 1, active_profiles,
                                     IF m.value THEN Append(kept, documents[i]) ELSE kept)
         IN keep(MatchesProfiles(documents[i], active_profiles))

\* get_applicable_documents(documents, active_profiles)
GetApplicableDocuments(documents, active_profiles) ==
    ApplicableFrom(documents, 1, active_profiles, <<>>)

-----------------------------------------------------------------------------
(* parser.py: the files of the project and the documents parsed from them *)

\* A file of the project is what its reader finds in it. For a YAML file that is
\* what ruamel's load_all yields, load_all (NullV for an empty document), or the
\* YAMLError it raises, error = TRUE with the line of the problem mark (0 if
\* there is none) and str(e) in details. For a .properties file it is the
\* documents parse_properties_content makes of the text, as <<content,
\* activation_profile, document_index>> triples in load_all.
YamlFile(load_all) == [load_all |-> load_all, error |-> FALSE, line |-> 0, details |-> <<>>]
BrokenYamlFile(line, details) ==
    [load_all |-> <<>>, error |-> TRUE, line |-> line, details |-> details]
PropertiesFile(documents) ==
    [load_all |-> documents, error |-> FALSE, line |-> 0, details |-> <<>>]

MAX_YAML_DEPTH == 50

\* dict.get(key, default) for a str key
DictGet(d, key, default) == IF key \in DOMAIN d THEN d[key] ELSE default

\* InvalidYAMLError(file_path, line, details): str(e)
InvalidYAMLError(file_path, line, details) ==
    file_path \o <<":", " ", "I", "n", "v", "a", "l", "i", "d", " ", "Y", "A", "M", "L", " ", "s", "y", "n", "t", "a", "x">>
    \o (IF line # 0 THEN <<" ", "a", "t", " ", "l", "i", "n", "e", " ">> \o IntStr(line) ELSE <<>>)
    \o (IF details # <<>> THEN <<":", " ">> \o details ELSE <<>>)

\* _validate_yaml_depth(data, max_depth, current_depth) raises InvalidYAMLError
RECURSIVE YamlDepthExceeded(_, _, _)
YamlDepthExceeded(data, max_depth, current_depth) ==
    \/ current_depth > max_depth
    \/ /\ IsDict(data)
       /\ \E key \in DOMAIN data.v : YamlDepthExceeded(data.v[key], max_depth, current_depth + 1)
    \/ /\ IsList(data)
       /\ \E i \in 1..Len(data.v) : YamlDepthExceeded(data.v[i], max_depth, current_depth + 1)

\* the message of the InvalidYAMLError of _validate_yaml_depth
YamlDepthDetails ==
    <<"Y", "A", "M", "L", " ", "n", "e", "s", "t", "i", "n", "g", " ", "d", "e", "p", "t", "h", " ", "e", "x", "c", "e", "e", "d", "s", " ", "m", "a", "x", "i", "m", "u", "m", " ", "a", "l", "l", "o", "w", "e", "d", " ", "d", "e", "p", "t", "h", " ", "o", "f", " ">> \o IntStr(MAX_YAML_DEPTH)
    \o <<".", " ", "T", "h", "i", "s", " ", "m", "a", "y", " ", "i", "n", "d", "i", "c", "a", "t", "e", " ", "a", " ", "Y", "A", "M", "L", " ", "b", "o", "m", "b", " ", "a", "t", "t", "a", "c", "k", " ", "o", "r", " ", "m", "a", "l", "f", "o", "r", "m", "e", "d", " ", "c", "o", "n", "f", "i", "g", "u", "r", "a", "t", "i", "o", "n", ".">>

\* a value of a mapping d if its key is there and the value is a mapping, the
\* empty mapping if the key is missing, NullV if the value is no mapping
\* (x = d.get(key, {}); if not isinstance(x, dict): return ...)
SubDict(d, key) ==
    LET x == DictGet(d, key, MapV(EmptyFn))
    IN IF IsDict(x) THEN x ELSE NullV

\* extract_activation_profile(doc): StrV(profile), or NullV for None
ExtractActivationProfile(doc) ==
    LET spring == SubDict(doc, <<"s", "p", "r", "i", "n", "g">>)
        config == IF IsNone(spring) THEN NullV ELSE SubDict(spring.v, <<"c", "o", "n", "f", "i", "g">>)
        activate == IF IsNone(config) THEN NullV ELSE SubDict(config.v, <<"a", "c", "t", "i", "v", "a", "t", "e">>)
        on_profile == IF IsNone(activate) THEN NullV
                      ELSE DictGet(activate.v, <<"o", "n", "-", "p", "r", "o", "f", "i", "l", "e">>, NullV)
    IN IF IsNone(on_profile) THEN NullV ELSE StrV(PyStr(on_profile))

\* "dict(doc) if doc else {}" of parse_yaml_file
DictOfDocument(doc) ==
    IF ~Truthy(doc) THEN Returned(EmptyFn)
    ELSE IF IsDict(doc) THEN Returned(doc.v)
    ELSE IF doc.t = "int" THEN Raised("TypeError", <<"'", "i", "n", "t", "'", " ", "o", "b", "j", "e", "c", "t", " ", "i", "s", " ", "n", "o", "t", " ", "i", "t", "e", "r", "a", "b", "l", "e">>)
    ELSE IF doc.t = "str"
    THEN Raised("ValueError",
                <<"d", "i", "c", "t", "i", "o", "n", "a", "r", "y", " ", "u", "p", "d", "a", "t", "e", " ", "s", "e", "q", "u", "e", "n", "c", "e", " ", "e", "l", "e", "m", "e", "n", "t", " ", "#", "0", " ", "h", "a", "s", " ", "l", "e", "n", "g", "t", "h", " ", "1", ";", " ", "2", " ", "i", "s", " ", "r", "e", "q", "u", "i", "r", "e", "d">>)
    ELSE Raised("TypeError",
                <<"c", "a", "n", "n", "o", "t", " ", "c", "o", "n", "v", "e", "r", "t", " ", "d", "i", "c", "t", "i", "o", "n", "a", "r", "y", " ", "u", "p", "d", "a", "t", "e", " ", "s", "e", "q", "u", "e", "n", "c", "e", " ", "e", "l", "e", "m", "e", "n", "t", " ", "#", "0", " ", "t", "o", " ", "a", " ", "s", "e", "q", "u", "e", "n", "c", "e">>)

\* the loop "for index, doc in enumerate(yaml.load_all(f))" of parse_yaml_file,
\* from the document at i on (index = i - 1)
RECURSIVE ParseYamlDocuments(_, _, _, _)
ParseYamlDocuments(path, load_all, i, documents) ==
    IF i > Len(load_all) THEN Returned(documents)
    ELSE IF IsNone(load_all[i]) THEN ParseYamlDocuments(path, load_all, i + 1, documents)
    ELSE LET content == DictOfDocument(load_all[i])
         IN IF ~content.ok THEN content
            ELSE IF YamlDepthExceeded(MapV(content.value), MAX_YAML_DEPTH, 0)
            THEN Raised("InvalidYAMLError", InvalidYAMLError(path, 0, YamlDepthDetails))
            ELSE ParseYamlDocuments(path, load_all, i + 1,
                     Append(documents,
                            ConfigDocument(MapV(content.value), path,
                                           ExtractActivationProfile(content.value), i - 1)))

\* parse_yaml_file(path), the file being file
ParseYamlFile(path, file) ==
    IF file.error
    THEN Raised("InvalidYAMLError", InvalidYAMLError(path, file.line, file.details))
    ELSE ParseYamlDocuments(path, file.load_all, 1, <<>>)

\* parse_properties_file(path), the file being file
ParsePropertiesFile(path, file) ==
    Returned([i \in 1..Len(file.load_all) |->
                 ConfigDocument(file.load_all[i][1], path, file.load_all[i][2],
                                file.load_all[i][3])])

YML_SUFFIX == <<".", "y", "m", "l">>
YAML_SUFFIX == <<".", "y", "a", "m", "l">>


\* the directory exists in the file system: some file is below it
IsDir(files, dir) == \E file \in DOMAIN files : StartsWith(file, dir \o <<"/">>)

\* the file that the operating system finds for the components of a path from
\* component i on, the components before it resolved to those of resolved: ".."
\* leaves the directory reached so far, which has to exist (<<>>: no such file)
RECURSIVE RealPathFrom(_, _, _, _)
RealPathFrom(files, components, i, resolved) ==
    IF i > Len(components) THEN Join(resolved, <<"/">>)
    ELSE IF components[i] # <<".", ".">>
    THEN RealPathFrom(files, components, i + 1, Append(resolved, components[i]))
    ELSE IF resolved # <<>> /\ IsDir(files, Join(resolved, <<"/">>))
    THEN RealPathFrom(files, components, i + 1, SubSeq(resolved, 1, Len(resolved) - 1))
    ELSE <<>>

\* the name under which the file system files keeps the file of the path: Path
\* keeps the ".." components of a path, and the operating system follows them
\* when the file is looked up or opened
RealPath(files, path) ==
    IF \E i \in 1..(Len(path) - 1) : path[i] = "." /\ path[i + 1] = "."
    THEN RealPathFrom(files, Split(path, "/"), 1, <<>>)
    ELSE path

\* Path.exists()
Exists(files, path) == RealPath(files, path) \in DOMAIN files

\* the file that open(path) reads
ReadFile(files, path) == files[RealPath(files, path)]

\* parse_config_file(path) in the file system files (path -> file)
ParseConfigFile(files, path) ==
    LET suffix == Lower(PathSuffix(path))
    IN IF suffix \in {YML_SUFFIX, YAML_SUFFIX}
       THEN IF Exists(files, path) THEN ParseYamlFile(path, ReadFile(files, path))
            ELSE Raised("FileNotFoundError", <<"[", "E", "r", "r", "n", "o", " ", "2", "]", " ", "N", "o", " ", "s", "u", "c", "h", " ", "f", "i", "l", "e", " ", "o", "r", " ", "d", "i", "r", "e", "c", "t", "o", "r", "y", ":", " ">>
                                             \o ReprStr(path))
       ELSE IF suffix = PROPERTIES_SUFFIX
       THEN IF Exists(files, path) THEN ParsePropertiesFile(path, ReadFile(files, path))
            ELSE Raised("FileNotFoundError", <<"[", "E", "r", "r", "n", "o", " ", "2", "]", " ", "N", "o", " ", "s", "u", "c", "h", " ", "f", "i", "l", "e", " ", "o", "r", " ", "d", "i", "r", "e", "c", "t", "o", "r", "y", ":", " ">>
                                             \o ReprStr(path))
       ELSE Raised("ValueError", <<"U", "n", "s", "u", "p", "p", "o", "r", "t", "e", "d", " ", "c", "o", "n", "f", "i", "g", "u", "r", "a", "t", "i", "o", "n", " ", "f", "i", "l", "e", " ", "t", "y", "p", "e", ":", " ">> \o suffix)

-----------------------------------------------------------------------------
(* profiles.py: parse_profile_groups *)

\* [p.strip() for p in value.split(",") if p.strip()], from part i on
RECURSIVE StrippedParts(_, _)
StrippedParts(parts, i) ==
    IF i > Len(parts) THEN <<>>
    ELSE IF Strip(parts[i]) = <<>> THEN StrippedParts(parts, i + 1)
    ELSE <<Strip(parts[i])>> \o StrippedParts(parts, i + 1)

\* [str(m) for m in members if m], from member i on
RECURSIVE TruthyMembers(_, _)
TruthyMembers(members, i) ==
    IF i > Len(members) THEN <<>>
    ELSE IF ~Truthy(members[i]) THEN TruthyMembers(members, i + 1)
    ELSE <<PyStr(members[i])>> \o TruthyMembers(members, i + 1)

\* the loop "for name, members in group.items()" of parse_profile_groups
RECURSIVE ParseGroupItems(_, _, _)
ParseGroupItems(group, ks, groups) ==
    IF ks = <<>> THEN groups
    ELSE LET name == Head(ks)
             members == group[name]
         IN ParseGroupItems(group, Tail(ks),
                IF IsNone(members) THEN groups
                ELSE IF members.t = "str"
                THEN Put(groups, name, StrippedParts(Split(members.v, ","), 1))
                ELSE IF IsList(members)
                THEN Put(groups, name, TruthyMembers(members.v, 1))
                ELSE groups)

\* parse_profile_groups(config): group name -> member list
ParseProfileGroups(config) ==
    LET spring == SubDict(config, <<"s", "p", "r", "i", "n", "g">>)
        profiles == IF IsNone(spring) THEN NullV ELSE SubDict(spring.v, <<"p", "r", "o", "f", "i", "l", "e", "s">>)
        group == IF IsNone(profiles) THEN NullV ELSE SubDict(profiles.v, <<"g", "r", "o", "u", "p">>)
    IN IF IsNone(group) THEN EmptyFn
       ELSE ParseGroupItems(group.v, KeySeq(DOMAIN group.v), EmptyFn)

\* str(CircularProfileGroupError(cycle_path))
CircularProfileGroupError(cycle_path) ==
    <<"C", "i", "r", "c", "u", "l", "a", "r", " ", "p", "r", "o", "f", "i", "l", "e", " ", "g", "r", "o", "u", "p", " ", "r", "e", "f", "e", "r", "e", "n", "c", "e", " ", "d", "e", "t", "e", "c", "t", "e", "d", ":", " ">> \o Join(cycle_path, <<" ", "-", ">", " ">>)

-----------------------------------------------------------------------------
(* imports.py *)

\* ImportLocation(path, optional, prefix); prefix is NullV for None
ImportLocation(path, optional, prefix) ==
    [path |-> path, optional |-> optional, prefix |-> prefix]

OPTIONAL_PREFIX == <<"o", "p", "t", "i", "o", "n", "a", "l", ":">>

\* str.index(c) + 1: the first position of the character c in s
IndexOf(s, c) == CHOOSE i \in 1..Len(s) : s[i] = c /\ \A j \in 1..(i - 1) : s[j] # c

\* _parse_single_import(value) for a value that is not empty
ParseSingleImport(value) ==
    LET optional == StartsWith(value, OPTIONAL_PREFIX)
        path == IF optional THEN SubSeq(value, Len(OPTIONAL_PREFIX) + 1, Len(value))
                ELSE value
    IN IF /\ \E i \in 1..Len(path) : path[i] = ":"
          /\ ~StartsWith(path, <<"/">>)
          /\ ~(Len(path) > 1 /\ path[2] = ":")
       THEN LET prefix_end == IndexOf(path, ":")
            IN ImportLocation(SubSeq(path, prefix_end + 1, Len(path)), optional,
                              StrV(SubSeq(path, 1, prefix_end - 1)))
       ELSE ImportLocation(path, optional, NullV)

\* parse_import_value(value) for a str value
ParseImportValue(value) ==
    LET parts == StrippedParts(Split(value, ","), 1)
    IN [i \in 1..Len(parts) |-> ParseSingleImport(parts[i])]

\* base / path of pathlib: an absolute path replaces the base, and the leading
\* "." components of a relative one are dropped
RECURSIVE PathResolve(_, _)
PathResolve(base, path) ==
    IF StartsWith(path, <<"/">>) THEN path
    ELSE IF path = <<>> \/ path = <<".">> THEN base
    ELSE IF StartsWith(path, <<".", "/">>) THEN PathResolve(base, SubSeq(path, 3, Len(path)))
    ELSE PathJoin(base, path)

\* Path.parent
PathParent(p) == SubSeq(p, 1, LastIndexOf(p, "/") - 1)

\* the loop "for resource_dir in dirs_to_check" of _resolve_single_import
RECURSIVE FirstCandidate(_, _, _, _)
FirstCandidate(files, dirs_to_check, i, path) ==
    IF i > Len(dirs_to_check) THEN <<>>
    ELSE IF Exists(files, PathResolve(dirs_to_check[i], path))
    THEN <<PathResolve(dirs_to_check[i], path)>>
    ELSE FirstCandidate(files, dirs_to_check, i + 1, path)

\* _resolve_single_import(imp, base_dir, resource_dirs): the paths found
ResolveSingleImport(files, imp, base_dir, resource_dirs) ==
    IF IsNone(imp.prefix) \/ imp.prefix.v = <<"c", "l", "a", "s", "s", "p", "a", "t", "h">>
    THEN FirstCandidate(files, IF resource_dirs # <<>> THEN resource_dirs ELSE <<base_dir>>,
                        1, imp.path)
    ELSE IF imp.prefix.v = <<"f", "i", "l", "e">>
    THEN LET candidate ==
                 IF StartsWith(imp.path, <<"/">>) \/ (Len(imp.path) > 1 /\ imp.path[2] = ":")
                 THEN imp.path
                 ELSE PathResolve(base_dir, imp.path)
         IN IF Exists(files, candidate) THEN <<candidate>> ELSE <<>>
    ELSE <<>>

\* resolve_import_paths(imports, base_dir, resource_dirs), from import i on:
\* <<resolved_path, optional>> pairs
RECURSIVE ResolveImportPaths(_, _, _, _, _)
ResolveImportPaths(files, imports, i, base_dir, resource_dirs) ==
    IF i > Len(imports) THEN <<>>
    ELSE LET paths == ResolveSingleImport(files, imports[i], base_dir, resource_dirs)
         IN [n \in 1..Len(paths) |-> <<paths[n], imports[i].optional>>]
            \o ResolveImportPaths(files, imports, i + 1, base_dir, resource_dirs)

\* extract_imports(config): the list of import strings, <<>> where the code
\* returns None or an empty list
ExtractImports(config) ==
    LET spring == SubDict(config, <<"s", "p", "r", "i", "n", "g">>)
        cfg == IF IsNone(spring) THEN NullV ELSE SubDict(spring.v, <<"c", "o", "n", "f", "i", "g">>)
        imports == IF IsNone(cfg) THEN NullV ELSE DictGet(cfg.v, <<"i", "m", "p", "o", "r", "t">>, NullV)
    IN IF imports.t = "str" THEN <<imports.v>>
       ELSE IF IsList(imports) THEN [i \in 1..Len(imports.v) |-> PyStr(imports.v[i])]
       ELSE <<>>

\* the loop "for val in import_values" of load_imports
RECURSIVE ImportLocations(_, _)
ImportLocations(import_values, i) ==
    IF i > Len(import_values) THEN <<>>
    ELSE ParseImportValue(import_values[i]) \o ImportLocations(import_values, i + 1)

\* load_imports(config, source_file, resource_dirs, loaded_files)
LoadImports(files, config, source_file, resource_dirs) ==
    ResolveImportPaths(files, ImportLocations(ExtractImports(config), 1), 1,
                       PathParent(source_file), resource_dirs)

-----------------------------------------------------------------------------
(* resolver.py: the steps of resolve_profiles *)

MAX_IMPORT_DEPTH == 10

\* _find_base_configs(resource_dir)
FindBaseConfigs(files, resource_dir) ==
    SelectSeq(<<PathJoin(resource_dir, APPLICATION \o YML_SUFFIX),
                PathJoin(resource_dir, APPLICATION \o YAML_SUFFIX),
                PathJoin(resource_dir, APPLICATION \o PROPERTIES_SUFFIX)>>,
              LAMBDA base_file : Exists(files, base_file))

\* _find_profile_files(resource_dir, profile)
FindProfileFiles(files, resource_dir, profile) ==
    SelectSeq(<<PathJoin(resource_dir, APPLICATION \o <<"-">> \o profile \o YML_SUFFIX),
                PathJoin(resource_dir, APPLICATION \o <<"-">> \o profile \o YAML_SUFFIX),
                PathJoin(resource_dir, APPLICATION \o <<"-">> \o profile \o PROPERTIES_SUFFIX)>>,
              LAMBDA profile_file : Exists(files, profile_file))

\* the locals all_documents, warnings, errors and loaded_files of resolve_profiles
\* (imported_docs, warnings, errors and loaded_files of _process_imports)
Loaded(documents, warnings, errors, loaded_files) ==
    [documents |-> documents, warnings |-> warnings, errors |-> errors,
     loaded_files |-> loaded_files]

\* the warning of _process_imports at the depth limit
ImportDepthWarning(max_depth, source_file) ==
    <<"I", "m", "p", "o", "r", "t", " ", "d", "e", "p", "t", "h", " ", "l", "i", "m", "i", "t", " ", "(">> \o IntStr(max_depth) \o <<")", " ", "e", "x", "c", "e", "e", "d", "e", "d", " ", "a", "t", " ">> \o source_file
    \o <<".", " ", "T", "h", "i", "s", " ", "m", "a", "y", " ", "i", "n", "d", "i", "c", "a", "t", "e", " ", "c", "i", "r", "c", "u", "l", "a", "r", " ", "i", "m", "p", "o", "r", "t", "s", " ", "o", "r", " ", "o", "v", "e", "r", "l", "y", " ", "n", "e", "s", "t", "e", "d", " ", "c", "o", "n", "f", "i", "g", "u", "r", "a", "t", "i", "o", "n", ".">>

RECURSIVE ProcessImports(_, _, _, _, _, _, _)
RECURSIVE ProcessImportsOfDocuments(_, _, _, _, _, _, _, _)
RECURSIVE ProcessImportPaths(_, _, _, _, _, _, _)

\* _process_imports(documents, source_file, resource_dirs, loaded_files, max_depth,
\* current_depth): st holds what has been collected, and loaded_files, before the
\* call; the result holds them after it
ProcessImports(files, documents, source_file, resource_dirs, st, max_depth, current_depth) ==
    IF current_depth >= max_depth
    THEN [st EXCEPT !.warnings = Append(@, ImportDepthWarning(max_depth, source_file))]
    ELSE ProcessImportsOfDocuments(files, documents, 1, source_file, resource_dirs, st,
                                   max_depth, current_depth)

\* the loop "for doc in documents" of _process_imports
ProcessImportsOfDocuments(files, documents, i, source_file, resource_dirs, st, max_depth, current_depth) ==
    IF i > Len(documents) THEN st
    ELSE ProcessImportsOfDocuments(files, documents, i + 1, source_file, resource_dirs,
             IF ~IsNone(documents[i].activation_profile) THEN st
             ELSE ProcessImportPaths(files,
                      LoadImports(files, documents[i].content.v, source_file, resource_dirs),
                      1, resource_dirs, st, max_depth, current_depth),
             max_depth, current_depth)

\* the loop "for import_path, optional in import_paths" of _process_imports
ProcessImportPaths(files, import_paths, i, resource_dirs, st, max_depth, current_depth) ==
    IF i > Len(import_paths) THEN st
    ELSE
      LET import_path == import_paths[i][1]
          optional == import_paths[i][2]
          added == [st EXCEPT !.loaded_files = @ \cup {import_path}]
          new_docs == ParseConfigFile(files, import_path)
          after ==
            IF import_path \in st.loaded_files THEN st
            ELSE IF ~Exists(files, import_path)
            THEN IF optional THEN st
                 ELSE [st EXCEPT !.warnings =
                          Append(@, <<"I", "m", "p", "o", "r", "t", "e", "d", " ", "f", "i", "l", "e", " ", "n", "o", "t", " ", "f", "o", "u", "n", "d", ":", " ">> \o import_path)]
            ELSE IF new_docs.ok
            THEN ProcessImports(files, new_docs.value, import_path, resource_dirs,
                                [added EXCEPT !.documents = @ \o new_docs.value],
                                max_depth, current_depth + 1)
            ELSE IF new_docs.type = "InvalidYAMLError"
            THEN [added EXCEPT !.errors = Append(@, new_docs.message)]
            ELSE IF optional THEN added
            ELSE [added EXCEPT !.warnings =
                     Append(@, <<"E", "r", "r", "o", "r", " ", "l", "o", "a", "d", "i", "n", "g", " ", "i", "m", "p", "o", "r", "t", "e", "d", " ", "f", "i", "l", "e", " ">> \o import_path \o <<":", " ">>
                               \o new_docs.message)]
      IN ProcessImportPaths(files, import_paths, i + 1, resource_dirs, after, max_depth,
                            current_depth)

\* the loop "for doc in documents" of _extract_profile_groups, from document i on
RECURSIVE ExtractGroupsFrom(_, _, _)
ExtractGroupsFrom(documents, i, groups) ==
    IF i > Len(documents) THEN groups
    ELSE ExtractGroupsFrom(documents, i + 1,
             IF IsNone(documents[i].activation_profile)
             THEN ParseProfileGroups(documents[i].content.v) @@ groups
             ELSE groups)

\* _extract_profile_groups(documents)
ExtractProfileGroups(documents) == ExtractGroupsFrom(documents, 1, EmptyFn)

\* _extract_paths_from_dict(data, prefix, paths): the paths it adds
RECURSIVE ExtractPathsFromDict(_, _)
ExtractPathsFromDict(data, prefix) ==
    UNION {{JoinPath(prefix, key)}
           \cup (IF IsDict(data[key]) THEN ExtractPathsFromDict(data[key].v, JoinPath(prefix, key))
                 ELSE {}) : key \in DOMAIN data}

\* _is_base_config_file(path)
IsBaseConfigFile(path) == PathStem(path) = APPLICATION

\* _collect_base_property_paths(documents)
CollectBasePropertyPaths(documents) ==
    UNION {ExtractPathsFromDict(documents[i].content.v, <<>>) :
           i \in {n \in 1..Len(documents) : IsBaseConfigFile(documents[n].source_file)}}

\* "try: documents = parse_config_file(file); all_documents.extend(documents)"
\* with its two except clauses
LoadFile(files, path, st) ==
    LET documents == ParseConfigFile(files, path)
    IN IF documents.ok THEN [st EXCEPT !.documents = @ \o documents.value]
       ELSE IF documents.type = "InvalidYAMLError"
       THEN [st EXCEPT !.errors = Append(@, documents.message)]
       ELSE [st EXCEPT !.warnings =
                Append(@, <<"E", "r", "r", "o", "r", " ", "p", "a", "r", "s", "i", "n", "g", " ">> \o path \o <<":", " ">> \o documents.message)]

\* the body of the loop "for base_file in base_files" of step 1
LoadBaseFile(files, base_file, main_dirs, st) ==
    LET documents == ParseConfigFile(files, base_file)
    IN IF documents.ok
       THEN ProcessImports(files, documents.value, base_file, main_dirs,
                           [st EXCEPT !.documents = @ \o documents.value,
                                      !.loaded_files = @ \cup {base_file}],
                           MAX_IMPORT_DEPTH, 0)
       ELSE LoadFile(files, base_file, st)

\* the loop "for base_file in base_files" of step 1
RECURSIVE LoadBaseFiles(_, _, _, _, _)
LoadBaseFiles(files, base_files, i, main_dirs, st) ==
    IF i > Len(base_files) THEN st
    ELSE LoadBaseFiles(files, base_files, i + 1, main_dirs,
                       LoadBaseFile(files, base_files[i], main_dirs, st))

\* step 1, the loop "for resource_dir in main_dirs"
RECURSIVE LoadMainBaseConfigs(_, _, _, _)
LoadMainBaseConfigs(files, main_dirs, i, st) ==
    IF i > Len(main_dirs) THEN st
    ELSE LET base_files == FindBaseConfigs(files, main_dirs[i])
         IN LoadMainBaseConfigs(files, main_dirs, i + 1,
                IF base_files # <<>> THEN LoadBaseFiles(files, base_files, 1, main_dirs, st)
                ELSE IF main_dirs[i] = main_dirs[1]
                THEN [st EXCEPT !.warnings =
                         Append(@, <<"N", "o", " ", "a", "p", "p", "l", "i", "c", "a", "t", "i", "o", "n", " ", "c", "o", "n", "f", "i", "g", " ", "f", "o", "u", "n", "d", " ", "i", "n", " ">> \o main_dirs[i])]
                ELSE st)

\* the loop "for profile_file in profile_files" of steps 2 and 3
RECURSIVE LoadProfileFilesFrom(_, _, _, _)
LoadProfileFilesFrom(files, profile_files, i, st) ==
    IF i > Len(profile_files) THEN st
    ELSE LoadProfileFilesFrom(files, profile_files, i + 1,
             IF \E n \in 1..Len(st.documents) : st.documents[n].source_file = profile_files[i]
             THEN st
             ELSE LoadFile(files, profile_files[i], st))

\* the loop "for profile in expanded_profiles" of steps 2 and 3
RECURSIVE LoadProfilesFrom(_, _, _, _, _)
LoadProfilesFrom(files, resource_dir, expanded_profiles, i, st) ==
    IF i > Len(expanded_profiles) THEN st
    ELSE LoadProfilesFrom(files, resource_dir, expanded_profiles, i + 1,
             LoadProfileFilesFrom(files,
                 FindProfileFiles(files, resource_dir, expanded_profiles[i]), 1, st))

\* step 2, the loop "for resource_dir in main_dirs"
RECURSIVE LoadMainProfileFiles(_, _, _, _, _)
LoadMainProfileFiles(files, main_dirs, i, expanded_profiles, st) ==
    IF i > Len(main_dirs) THEN st
    ELSE LoadMainProfileFiles(files, main_dirs, i + 1, expanded_profiles,
             LoadProfilesFrom(files, main_dirs[i], expanded_profiles, 1, st))

\* the loop "for base_file in base_files" of step 3
RECURSIVE LoadTestBaseFiles(_, _, _, _)
LoadTestBaseFiles(files, base_files, i, st) ==
    IF i > Len(base_files) THEN st
    ELSE LoadTestBaseFiles(files, base_files, i + 1, LoadFile(files, base_files[i], st))

\* step 3, the loop "for test_dir in test_dirs"
RECURSIVE LoadTestDirs(_, _, _, _, _)
LoadTestDirs(files, test_dirs, i, expanded_profiles, st) ==
    IF i > Len(test_dirs) THEN st
    ELSE LoadTestDirs(files, test_dirs, i + 1, expanded_profiles,
             LoadProfilesFrom(files, test_dirs[i], expanded_profiles, 1,
                 LoadTestBaseFiles(files, FindBaseConfigs(files, test_dirs[i]), 1, st)))

\* main_dirs and test_dirs of resolve_profiles(project_path, ..., resource_dirs=None)
MainDirs(project_path) ==
    <<PathJoin(PathJoin(PathJoin(project_path, <<"s", "r", "c">>), <<"m", "a", "i", "n">>), <<"r", "e", "s", "o", "u", "r", "c", "e", "s">>)>>
TestDirs(project_path, include_test) ==
    IF include_test
    THEN <<PathJoin(PathJoin(PathJoin(project_path, <<"s", "r", "c">>), <<"t", "e", "s", "t">>), <<"r", "e", "s", "o", "u", "r", "c", "e", "s">>)>>
    ELSE <<>>

\* the parameters of resolve_placeholders, and the keywords that resolve_profiles
\* passes in its call
RESOLVE_PLACEHOLDERS_PARAMETERS ==
    {<<"c", "o", "n", "f", "i", "g">>, <<"m", "a", "x", "_", "i", "t", "e", "r", "a", "t", "i", "o", "n", "s">>, <<"e", "n", "v", "_", "v", "a", "r", "s">>, <<"u", "s", "e", "_", "s", "y", "s", "t", "e", "m", "_", "e", "n", "v">>,
     <<"v", "c", "a", "p", "_", "s", "e", "r", "v", "i", "c", "e", "s", "_", "j", "s", "o", "n">>, <<"v", "c", "a", "p", "_", "a", "p", "p", "l", "i", "c", "a", "t", "i", "o", "n", "_", "j", "s", "o", "n">>}
RESOLVE_PROFILES_KEYWORDS ==
    <<<<"e", "n", "v", "_", "v", "a", "r", "s">>, <<"u", "s", "e", "_", "s", "y", "s", "t", "e", "m", "_", "e", "n", "v">>, <<"v", "c", "a", "p", "_", "s", "e", "r", "v", "i", "c", "e", "s", "_", "j", "s", "o", "n">>, <<"v", "c", "a", "p", "_", "a", "p", "p", "l", "i", "c", "a", "t", "i", "o", "n", "_", "j", "s", "o", "n">>,
      <<"i", "g", "n", "o", "r", "e", "_", "v", "c", "a", "p", "_", "w", "a", "r", "n", "i", "n", "g", "s">>>>

\* the call resolve_placeholders(merged_config, env_vars=..., ...) of
\* resolve_profiles: a keyword that is no parameter of the function raises
\* TypeError before its body runs
CallResolvePlaceholders(merged_config, env_vars, use_system_env, vcap_services_json, vcap_application_json, environ) ==
    LET unexpected == SelectSeq(RESOLVE_PROFILES_KEYWORDS,
                                LAMBDA keyword : keyword \notin RESOLVE_PLACEHOLDERS_PARAMETERS)
    IN IF unexpected # <<>>
       THEN Raised("TypeError",
                   <<"r", "e", "s", "o", "l", "v", "e", "_", "p", "l", "a", "c", "e", "h", "o", "l", "d", "e", "r", "s", "(", ")", " ", "g", "o", "t", " ", "a", "n", " ", "u", "n", "e", "x", "p", "e", "c", "t", "e", "d", " ", "k", "e", "y", "w", "o", "r", "d", " ", "a", "r", "g", "u", "m", "e", "n", "t", " ", "'">>
                   \o unexpected[1] \o <<"'">>)
       ELSE Returned(ResolvePlaceholders(merged_config, MAX_ITERATIONS, env_vars,
                                         use_system_env, vcap_services_json,
                                         vcap_application_json, environ))

\* ResolverResult(config, sources, base_properties, warnings, errors), the issue
\* lists empty (validation, security scan and linting are not enabled)
ResolverResult(config, sources, base_properties, warnings, errors) ==
    [config |-> config, sources |-> sources, base_properties |-> base_properties,
     warnings |-> warnings, errors |-> errors]

-----------------------------------------------------------------------------
(* The resolver specification: resolve_profiles(project_path, profiles,
   include_test=...) on a project, step by step *)

\* the mapping {keys[1]: {keys[2]: ... value}}
RECURSIVE Nest(_, _)
Nest(keys, value) == IF keys = <<>> THEN value ELSE One(Head(keys), Nest(Tail(keys), value))

\* two mappings with different keys, in one
Both(m1, m2) == MapV(m1.v @@ m2.v)

\* a document that sets KEY to n
Sets(n) == One(KEY, IntV(n))

\* a document that sets KEY and defines the profile groups group
GroupDocument(group) ==
    Both(Sets(1), Nest(<<<<"s", "p", "r", "i", "n", "g">>, <<"p", "r", "o", "f", "i", "l", "e", "s">>, <<"g", "r", "o", "u", "p">>>>, MapV(group)))

\* a document activated on the profile expression on_profile that sets KEY to n
Activated(on_profile, n) ==
    Both(Sets(n), Nest(<<<<"s", "p", "r", "i", "n", "g">>, <<"c", "o", "n", "f", "i", "g">>, <<"a", "c", "t", "i", "v", "a", "t", "e">>, <<"o", "n", "-", "p", "r", "o", "f", "i", "l", "e">>>>,
                       StrV(on_profile)))

\* a document that sets OTHERKEY and imports the locations of text
Importing(text) ==
    Both(One(OTHERKEY, IntV(1)), Nest(<<<<"s", "p", "r", "i", "n", "g">>, <<"c", "o", "n", "f", "i", "g">>, <<"i", "m", "p", "o", "r", "t">>>>, StrV(text)))

F_EXTRA == PathJoin(MAIN_DIR, <<"e", "x", "t", "r", "a", ".", "y", "m", "l">>)

\* a document activated on the profile expression on_profile that imports the
\* locations of text
ActivatedImporting(on_profile, text) ==
    Nest(<<<<"s", "p", "r", "i", "n", "g">>, <<"c", "o", "n", "f", "i", "g">>>>,
         Two(<<"a", "c", "t", "i", "v", "a", "t", "e">>, One(<<"o", "n", "-", "p", "r", "o", "f", "i", "l", "e">>, StrV(on_profile)), <<"i", "m", "p", "o", "r", "t">>, StrV(text)))

F_DB == PathJoin(PathJoin(MAIN_DIR, <<"c", "o", "n", "f", "i", "g">>), <<"d", "b", ".", "y", "m", "l">>)

F_TEST_BASE == PathJoin(TEST_DIR, APPLICATION \o YML_SUFFIX)

F_BASE_PROPERTIES == PathJoin(MAIN_DIR, APPLICATION \o PROPERTIES_SUFFIX)

\* a file system with the one file
OneFile(path, file) == [p \in {path} |-> file]

\* the base configurations of the projects: application.yml in the main
\* resources (and extra.yml where it is imported), or no base file at all
BaseConfigs ==
    { EmptyFn,
      OneFile(F_BASE, YamlFile(<<Sets(1)>>)),
      OneFile(F_BASE, YamlFile(<<GroupDocument(Two(PA, StrV(<<"b">>), PB, StrV(<<"a">>)).v)>>)),
      OneFile(F_BASE, YamlFile(<<GroupDocument(One(PA, ListV(<<StrV(PA)>>)).v)>>)),
      OneFile(F_BASE, YamlFile(<<GroupDocument(One(PA, StrV(<<"b", ",", " ", "c">>)).v)>>)),
      OneFile(F_BASE, YamlFile(<<GroupDocument(Two(PA, StrV(<<"b">>), PB, StrV(<<"a">>)).v),
                                 Activated(PB, 3)>>)),
      OneFile(F_BASE, YamlFile(<<Sets(1), Activated(PA, 2), Activated(PB, 3)>>)),
      OneFile(F_BASE, YamlFile(<<Sets(1), NullV, Activated(<<"a", " ", "&", " ", "!", "b">>, 2)>>)),
      OneFile(F_BASE, YamlFile(<<Sets(1), Activated(<<"a", " ", "&">>, 2)>>)),
      OneFile(F_BASE, YamlFile(<<Importing(<<"o", "p", "t", "i", "o", "n", "a", "l", ":", "e", "x", "t", "r", "a", ".", "y", "m", "l", ",", " ", "f", "i", "l", "e", ":", ".", "/", "m", "i", "s", "s", "i", "n", "g", ".", "y", "m", "l">>)>>))
        @@ OneFile(F_EXTRA, YamlFile(<<Sets(5), Importing(<<"c", "l", "a", "s", "s", "p", "a", "t", "h", ":", "a", "p", "p", "l", "i", "c", "a", "t", "i", "o", "n", ".", "y", "m", "l">>)>>)),
      OneFile(F_BASE, YamlFile(<<Importing(<<"f", "i", "l", "e", ":", ".", "/", "c", "o", "n", "f", "i", "g", "/", "d", "b", ".", "y", "m", "l">>)>>))
        @@ OneFile(F_DB, YamlFile(<<Importing(<<"f", "i", "l", "e", ":", ".", ".", "/", "a", "p", "p", "l", "i", "c", "a", "t", "i", "o", "n", ".", "y", "m", "l">>)>>)),
      OneFile(F_BASE, YamlFile(<<Sets(1), ActivatedImporting(PA, <<"o", "p", "t", "i", "o", "n", "a", "l", ":", "e", "x", "t", "r", "a", ".", "y", "m", "l">>)>>))
        @@ OneFile(F_EXTRA, YamlFile(<<Sets(5)>>)),
      OneFile(F_BASE, BrokenYamlFile(3, <<"m", "a", "p", "p", "i", "n", "g", " ", "v", "a", "l", "u", "e", "s", " ", "a", "r", "e", " ", "n", "o", "t", " ", "a", "l", "l", "o", "w", "e", "d", " ", "h", "e", "r", "e">>)),
      OneFile(F_BASE, YamlFile(<<IntV(5)>>)) }

\* the other files of the projects
ProfileConfigs ==
    { EmptyFn,
      OneFile(F_A, YamlFile(<<Two(KEY, IntV(10), OTHERKEY, Ref(KEY))>>))
        @@ OneFile(F_B, YamlFile(<<Sets(20)>>)),
      OneFile(F_A, YamlFile(<<Sets(10)>>))
        @@ OneFile(F_TEST_BASE, YamlFile(<<Sets(30)>>))
        @@ OneFile(F_TEST_A, YamlFile(<<Sets(40)>>)),
      OneFile(F_A, BrokenYamlFile(0, <<>>))
        @@ OneFile(F_A_PROPERTIES, PropertiesFile(<<<<Sets(50), NullV, 0>>>>))
        @@ OneFile(F_B, YamlFile(<<Sets(20)>>)),
      OneFile(F_A, YamlFile(<<Sets(10), Sets(11)>>))
        @@ OneFile(F_A_PROPERTIES, PropertiesFile(<<<<Sets(50), NullV, 0>>>>))
        @@ OneFile(F_BASE_PROPERTIES, PropertiesFile(<<<<Sets(60), NullV, 0>>>>)) }

Projects == {base @@ others : base \in BaseConfigs, others \in ProfileConfigs}

\* the profiles arguments
ProfileRequests == {<<>>, <<PA>>, <<PB, PA>>}

ResolverInit ==
    /\ rfiles \in Projects
    /\ rprofiles \in ProfileRequests
    /\ rinclude_test \in BOOLEAN
    /\ rpc = "base"
    /\ rloaded = Loaded(<<>>, <<>>, <<>>, {})
    /\ rexpansion = [kind |-> "none", value |-> <<>>]
    /\ rexpanded_profiles = <<>>
    /\ rsorted_docs = <<>>
    /\ rmerged = <<EmptyFn, EmptyFn>>
    /\ routcome = [ok |-> FALSE, value |-> <<>>, type |-> "", message |-> <<>>]
    /\ NotResolverIdle

\* Step 1: the base application config of the main resources, with its imports
LoadBaseConfigs ==
    /\ rpc = "base"
    /\ rloaded' = LoadMainBaseConfigs(rfiles, MainDirs(PROJECT), 1, rloaded)
    /\ rpc' = "expand"
    /\ UNCHANGED <<rfiles, rprofiles, rinclude_test, rexpansion, rexpanded_profiles,
                   rsorted_docs, rmerged, routcome>>
    /\ UNCHANGED notResolverVars

\* groups = _extract_profile_groups(all_documents); expand_profiles(profiles,
\* groups), the CircularProfileGroupError caught
ExpandProfileGroups ==
    /\ rpc = "expand"
    /\ LET groups == ExtractProfileGroups(rloaded.documents)
           expansion == ExpandProfiles(rprofiles, groups)
       IN /\ rexpansion' = expansion
          /\ IF expansion.kind = "raised"
             THEN /\ rloaded' = [rloaded EXCEPT !.warnings =
                                    Append(@, CircularProfileGroupError(expansion.value))]
                  /\ rexpanded_profiles' = rprofiles
             ELSE /\ rloaded' = rloaded
                  /\ rexpanded_profiles' = expansion.value
    /\ rpc' = "profiles"
    /\ UNCHANGED <<rfiles, rprofiles, rinclude_test, rsorted_docs, rmerged, routcome>>
    /\ UNCHANGED notResolverVars

\* Step 2: the profile-specific files of the main resources
LoadProfileFiles ==
    /\ rpc = "profiles"
    /\ rloaded' = LoadMainProfileFiles(rfiles, MainDirs(PROJECT), 1, rexpanded_profiles,
                                       rloaded)
    /\ rpc' = "test"
    /\ UNCHANGED <<rfiles, rprofiles, rinclude_test, rexpansion, rexpanded_profiles,
                   rsorted_docs, rmerged, routcome>>
    /\ UNCHANGED notResolverVars

\* Step 3: the test resources
LoadTestResources ==
    /\ rpc = "test"
    /\ rloaded' = LoadTestDirs(rfiles, TestDirs(PROJECT, rinclude_test), 1,
                               rexpanded_profiles, rloaded)
    /\ rpc' = "merge"
    /\ UNCHANGED <<rfiles, rprofiles, rinclude_test, rexpansion, rexpanded_profiles,
                   rsorted_docs, rmerged, routcome>>
    /\ UNCHANGED notResolverVars

\* get_applicable_documents, _sort_documents_for_merge and merge_configs; a
\* ProfileExpressionError of the filter leaves resolve_profiles
FilterSortMerge ==
    /\ rpc = "merge"
    /\ LET merge(sorted_docs) ==
               /\ rsorted_docs' = sorted_docs
               /\ rmerged' = MergeConfigs(sorted_docs)
               /\ rpc' = "placeholders"
               /\ routcome' = routcome
           sort(applicable_docs) ==
               IF applicable_docs.ok
               THEN merge(SortDocumentsForMerge(applicable_docs.value, rexpanded_profiles,
                                                MainDirs(PROJECT),
                                                TestDirs(PROJECT, rinclude_test)))
               ELSE /\ routcome' = applicable_docs
                    /\ rpc' = "raised"
                    /\ UNCHANGED <<rsorted_docs, rmerged>>
       IN sort(GetApplicableDocuments(rloaded.documents, rexpanded_profiles))
    /\ UNCHANGED <<rfiles, rprofiles, rinclude_test, rloaded, rexpansion, rexpanded_profiles>>
    /\ UNCHANGED notResolverVars

\* _collect_base_property_paths, the call of resolve_placeholders (env_vars,
\* vcap_services_json and vcap_application_json None, use_system_env True) and
\* the return of the ResolverResult; an exception of the call leaves
\* resolve_profiles
ResolveAndReturn ==
    /\ rpc = "placeholders"
    /\ LET base_properties == CollectBasePropertyPaths(rloaded.documents)
           return(call) ==
               IF call.ok
               THEN /\ rloaded' = [rloaded EXCEPT !.warnings = @ \o call.value[2]]
                    /\ routcome' = Returned(ResolverResult(call.value[1], rmerged[2],
                                                           base_properties, rloaded'.warnings,
                                                           rloaded.errors))
                    /\ rpc' = "returned"
               ELSE /\ routcome' = call
                    /\ rpc' = "raised"
                    /\ rloaded' = rloaded
       IN return(CallResolvePlaceholders(rmerged[1], NullV, TRUE, NullV, NullV, penviron))
    /\ UNCHANGED <<rfiles, rprofiles, rinclude_test, rexpansion, rexpanded_profiles,
                   rsorted_docs, rmerged>>
    /\ UNCHANGED notResolverVars

ResolverNext ==
    \/ LoadBaseConfigs
    \/ ExpandProfileGroups
    \/ LoadProfileFiles
    \/ LoadTestResources
    \/ FilterSortMerge
    \/ ResolveAndReturn

SpecResolver == ResolverInit /\ [][ResolverNext]_vars

-----------------------------------------------------------------------------
(* Claims about resolve_profiles *)

\* resolve_profiles has come to its end, by a return or by an exception
ResolverEnded == rpc \in {"returned", "raised"}

\* the keys that the unconditional documents of the base application file set
BaseConfigKeys ==
    UNION {DOMAIN rloaded.documents[i].content.v :
           i \in {n \in 1..Len(rloaded.documents) :
                    /\ rloaded.documents[n].source_file = F_BASE
                    /\ IsNone(rloaded.documents[n].activation_profile)}}

\* C5: when expand_profiles raises the cycle error, resolve_profiles does not
\* abort: it returns a result whose warnings describe the cycle, the requested
\* list stands in for the expanded one, and the result holds the base
\* configuration.
C5_CycleFallback ==
    (ResolverEnded /\ rexpansion.kind = "raised") =>
        /\ routcome.ok
        /\ InList(CircularProfileGroupError(rexpansion.value), routcome.value.warnings)
        /\ rexpanded_profiles = rprofiles
        /\ BaseConfigKeys \subseteq DOMAIN routcome.value.config

-----------------------------------------------------------------------------
(* Claims about the merge, step by step: merge_configs is a fold of deep_merge,
   so its state before document i is its result on the first i - 1 documents *)

\* the key sequences of the nodes of the tree, the root excluded
RECURSIVE NodePaths(_)
NodePaths(tree) ==
    IF tree.t = "map"
    THEN UNION {{<<k>>} \cup {<<k>> \o ks : ks \in NodePaths(tree.v[k])} : k \in DOMAIN tree.v}
    ELSE {}

\* merge_configs(documents[:i])
MergedUpTo(docs, i) == MergeConfigs(SubSeq(docs, 1, i))

\* the SourceMap paths at or under the path: path itself, path.child, path[index]
SourcesAtOrUnder(sources, path) ==
    {p \in DOMAIN sources : \/ p = path
                            \/ StartsWith(p, path \o <<".">>)
                            \/ StartsWith(p, path \o <<"[">>)}

Shape(value) == IF IsDict(value) THEN "map" ELSE IF IsList(value) THEN "list" ELSE "scalar"

\* the dot-notation paths of the leaves of the value found under the keys ks
LeafPathsUnder(ks, value) == {Dotted(ks \o l) : l \in LeafKeyPaths(value)}

-----------------------------------------------------------------------------
(* Claims about the merge order of resolve_profiles *)

\* resolve_profiles has filtered, sorted and merged its documents
ResolverMerged ==
    \/ rpc \in {"placeholders", "returned"}
    \/ rpc = "raised" /\ routcome.type # "ProfileExpressionError"

\* the places in the sorted documents of the documents that set the key
SettersOf(key, in_test) ==
    {n \in 1..Len(rsorted_docs) : /\ key \in DOMAIN rsorted_docs[n].content.v
                                  /\ InTestLocation(rsorted_docs[n]) = in_test}

\* the greatest number of a non-empty set of numbers
Greatest(S) == CHOOSE n \in S : \A m \in S : m <= n

\* C14: with include_test, every document of the main resources is merged
\* before every document of the test resources, so a key set on both sides
\* ends with the value and the source of a test resource; without include_test
\* no document of the test resources is loaded, sorted or named as a source.
C14_MainBeforeTest ==
    ResolverMerged =>
        IF rinclude_test
        THEN /\ \A i, j \in 1..Len(rsorted_docs) :
                   (~InTestLocation(rsorted_docs[i]) /\ InTestLocation(rsorted_docs[j]))
                       => i < j
             /\ \A key \in {KEY, OTHERKEY} :
                   (SettersOf(key, FALSE) # {} /\ SettersOf(key, TRUE) # {}) =>
                       LET last == rsorted_docs[Greatest(SettersOf(key, TRUE))]
                       IN /\ rmerged[1][key] = last.content.v[key]
                          /\ rmerged[2][key] = last.source_file
        ELSE /\ \A i \in 1..Len(rloaded.documents) : ~InTestLocation(rloaded.documents[i])
             /\ \A i \in 1..Len(rsorted_docs) : ~InTestLocation(rsorted_docs[i])
             /\ \A p \in DOMAIN rmerged[2] : ~StartsWith(rmerged[2][p], TEST_DIR)

\* application.yml and application-a.yml of the main resources, then those of
\* the test resources; the key they all set ends with the value of the last
C14_Witness ==
    /\ rpc = "placeholders"
    /\ rinclude_test
    /\ Len(rsorted_docs) = 4
    /\ [i \in 1..4 |-> rsorted_docs[i].source_file] = <<F_BASE, F_A, F_TEST_BASE, F_TEST_A>>
    /\ rmerged[1][KEY] = IntV(40)
    /\ rmerged[2][KEY] = F_TEST_A

\* the document comes from a base file (no profile in the file name)
FromBaseFile(doc) == ProfileOfFile(doc.source_file) = <<>>

\* the places of the documents of one location that set the key and come from
\* base files (base = TRUE) or from profile-specific files
SettersByFile(key, in_test, base) ==
    {n \in SettersOf(key, in_test) : FromBaseFile(rsorted_docs[n]) = base}

\* the key is merged with the value and the source of the sorted document n
MergedFrom(key, n) ==
    /\ rmerged[1][key] = rsorted_docs[n].content.v[key]
    /\ rmerged[2][key] = rsorted_docs[n].source_file

\* C15: within one location every document of a base application file, its
\* profile-activated sections included, is merged before every document of a
\* profile-specific file; so among the documents of a location that set a key,
\* base and profile-specific ones, the last one is profile-specific, and the key
\* ends with its value and source when no later location sets it.
C15_BaseBeforeProfileFiles ==
    ResolverMerged =>
        /\ \A i, j \in 1..Len(rsorted_docs) :
              ( /\ InTestLocation(rsorted_docs[i]) = InTestLocation(rsorted_docs[j])
                /\ FromBaseFile(rsorted_docs[i])
                /\ ~FromBaseFile(rsorted_docs[j]) ) => i < j
        /\ \A key \in {KEY, OTHERKEY} : \A in_test \in BOOLEAN :
              (SettersByFile(key, in_test, TRUE) # {} /\ SettersByFile(key, in_test, FALSE) # {}) =>
                  LET last == Greatest(SettersOf(key, in_test))
                  IN /\ ~FromBaseFile(rsorted_docs[last])
                     /\ (in_test \/ SettersOf(key, TRUE) = {}) => MergedFrom(key, last)

\* application.yml with a section activated on a, then application-a.yml: the
\* key that all three documents set ends with the value of application-a.yml
C15_Witness ==
    /\ rpc = "placeholders"
    /\ rexpanded_profiles = <<PA>>
    /\ Len(rsorted_docs) = 3
    /\ [i \in 1..3 |-> rsorted_docs[i].source_file] = <<F_BASE, F_BASE, F_A>>
    /\ ~IsNone(rsorted_docs[2].activation_profile)
    /\ rsorted_docs[2].content.v[KEY] = IntV(2)
    /\ rmerged[1][KEY] = IntV(10)
    /\ rmerged[2][KEY] = F_A

\* the document comes from a .properties file, or from a .yml or .yaml file
FromProperties(doc) == PathSuffix(doc.source_file) = PROPERTIES_SUFFIX
FromYaml(doc) == PathSuffix(doc.source_file) \in {YML_SUFFIX, YAML_SUFFIX}

\* the two documents come from one location and from files of the same
\* profile (or both from base files)
SameLocationAndProfile(d1, d2) ==
    /\ InTestLocation(d1) = InTestLocation(d2)
    /\ ProfileOfFile(d1.source_file) = ProfileOfFile(d2.source_file)

\* C16: within one location and one profile (or both base) the documents of
\* .yml and .yaml files are merged before the documents of .properties files,
\* so a key set on both sides ends with the .properties value when no document
\* of a later group sets it; and the documents of one file are merged in
\* ascending order of their document index.
C16_YamlBeforeProperties ==
    ResolverMerged =>
        /\ \A i, j \in 1..Len(rsorted_docs) :
              ( /\ SameLocationAndProfile(rsorted_docs[i], rsorted_docs[j])
                /\ FromYaml(rsorted_docs[i])
                /\ FromProperties(rsorted_docs[j]) ) => i < j
        /\ \A i, j \in 1..Len(rsorted_docs) :
              ( /\ rsorted_docs[i].source_file = rsorted_docs[j].source_file
                /\ rsorted_docs[i].document_index < rsorted_docs[j].document_index ) => i < j
        /\ \A key \in {KEY, OTHERKEY} : \A y, q \in SettersOf(key, FALSE) \cup SettersOf(key, TRUE) :
              ( /\ SameLocationAndProfile(rsorted_docs[y], rsorted_docs[q])
                /\ FromYaml(rsorted_docs[y])
                /\ FromProperties(rsorted_docs[q])
                /\ \A n \in SettersOf(key, FALSE) \cup SettersOf(key, TRUE) :
                      n > q => /\ SameLocationAndProfile(rsorted_docs[n], rsorted_docs[q])
                               /\ FromProperties(rsorted_docs[n]) )
              => MergedFrom(key, Greatest(SettersOf(key, FALSE) \cup SettersOf(key, TRUE)))
                 /\ FromProperties(rsorted_docs[Greatest(SettersOf(key, FALSE)
                                                          \cup SettersOf(key, TRUE))])

\* application.yml, application.properties, the two documents of
\* application-a.yml in their order, then application-a.properties, whose value
\* the key ends with
C16_Witness ==
    /\ rpc = "placeholders"
    /\ Len(rsorted_docs) = 5
    /\ [i \in 1..5 |-> rsorted_docs[i].source_file]
         = <<F_BASE, F_BASE_PROPERTIES, F_A, F_A, F_A_PROPERTIES>>
    /\ rsorted_docs[3].document_index = 0
    /\ rsorted_docs[4].document_index = 1
    /\ rmerged[1][KEY] = IntV(50)
    /\ rmerged[2][KEY] = F_A_PROPERTIES

-----------------------------------------------------------------------------
(* Claims about the failures resolve_profiles meets *)

\* the files resolve_profiles finds by their names: the base files and the
\* files of the expanded profiles, in the main resources and, with
\* include_test, in the test resources
DiscoveredIn(resource_dir) ==
    SetOf(FindBaseConfigs(rfiles, resource_dir))
    \cup UNION {SetOf(FindProfileFiles(rfiles, resource_dir, rexpanded_profiles[n])) :
                  n \in 1..Len(rexpanded_profiles)}
DiscoveredFiles ==
    UNION {DiscoveredIn(dir) : dir \in SetOf(MainDirs(PROJECT))
                                       \cup SetOf(TestDirs(PROJECT, rinclude_test))}

\* the discovered files that parse_config_file fails on
FailedFiles == {p \in DiscoveredFiles : ~ParseConfigFile(rfiles, p).ok}

\* every document of the file that matches the active profiles is merged
MergedFile(p) ==
    LET documents == ParseConfigFile(rfiles, p).value
    IN \A n \in 1..Len(documents) :
         MatchesProfiles(documents[n], rexpanded_profiles) = Returned(TRUE)
             => InList(documents[n], rsorted_docs)

\* C17: a file that fails to parse is recorded in the errors of the result
\* with its path, none of its documents takes part in the merge, every other
\* discovered file is still parsed and merged, and resolve_profiles ends with
\* a result instead of an exception.
C17_ParseFailureIsolated ==
    (ResolverEnded /\ FailedFiles # {}) =>
        /\ routcome.ok
        /\ \A p \in FailedFiles :
              /\ \E n \in 1..Len(routcome.value.errors) :
                    Contains(routcome.value.errors[n], p)
              /\ \A n \in 1..Len(rsorted_docs) : rsorted_docs[n].source_file # p
        /\ \A p \in DiscoveredFiles \ FailedFiles : MergedFile(p)

\* C18: for every project and every combination of options resolve_profiles
\* runs to its end and returns a ResolverResult; the advisory conditions
\* (missing base config, missing profile file, missing import, unresolved
\* placeholder, ...) only add warnings and never keep the result from being
\* returned.
C18_AlwaysReturns ==
    ResolverEnded => (rpc = "returned" /\ routcome.ok)

\* the places of the loaded documents whose activation expression is not a
\* simple profile name and does not parse
BadExpressionDocs ==
    {n \in 1..Len(rloaded.documents) :
        /\ ~IsNone(rloaded.documents[n].activation_profile)
        /\ ~IsSimpleProfile(rloaded.documents[n].activation_profile.v)
        /\ ~ParseProfileExpression(rloaded.documents[n].activation_profile.v).ok}

\* C19: a document whose activation expression fails to parse is treated as
\* never active: the filter does not end resolve_profiles with an exception,
\* the document is kept out of the merge, a warning names its expression, and
\* the documents without activation condition are still merged.
C19_BadExpressionNeverActive ==
    ((ResolverEnded \/ rpc = "placeholders") /\ BadExpressionDocs # {}) =>
        /\ ~(rpc = "raised" /\ routcome.type = "ProfileExpressionError")
        /\ \A n \in BadExpressionDocs :
              /\ ~InList(rloaded.documents[n], rsorted_docs)
              /\ \E w \in 1..Len(rloaded.warnings) :
                    Contains(rloaded.warnings[w], rloaded.documents[n].activation_profile.v)
        /\ \A n \in 1..Len(rloaded.documents) :
              IsNone(rloaded.documents[n].activation_profile)
                  => InList(rloaded.documents[n], rsorted_docs)

-----------------------------------------------------------------------------
(* The expression specification: a caller writes a profile expression token by
   token, then parse_profile_expression and evaluate_profile_expression are
   called on its text *)

MaxTokens == 4
MaxExpressionTokens == 7

\* the tokens an expression is written with: profile names and the operators
OPERATORS == {<<"!">>, <<"&">>, <<"|">>, <<"(">>, <<")">>}
ExpressionTokens == ProfileNames \cup OPERATORS

\* the lists of active profiles
ActiveLists == {<<>>, <<PA>>, <<PB>>, <<PC>>, <<PA, PB>>, <<PC, PA>>, <<PB, PC>>,
                <<PA, PB, PC>>}

ExpressionInit ==
    /\ xtokens = <<>>
    /\ xexpression = <<>>
    /\ xactive = <<>>
    /\ xpc = "input"
    /\ xparsed = [ok |-> FALSE, expr |-> <<>>, pos |-> 0, message |-> <<>>]
    /\ xevaluated = [ok |-> FALSE, value |-> <<>>, type |-> "", message |-> <<>>]
    /\ xstr = <<>>
    /\ xreparsed = [ok |-> FALSE, expr |-> <<>>, pos |-> 0, message |-> <<>>]
    /\ xmatched = [ok |-> FALSE, value |-> <<>>, type |-> "", message |-> <<>>]
    /\ NotExpressionIdle

\* the tokens begin an expression: an operand is a name, a negation or a
\* parenthesis, and &, | or a closing parenthesis follows an operand
RECURSIVE BeginsExpression(_, _, _, _)
BeginsExpression(tokens, i, operand_next, depth) ==
    IF i > Len(tokens) THEN TRUE
    ELSE IF operand_next
    THEN IF tokens[i] \in ProfileNames THEN BeginsExpression(tokens, i + 1, FALSE, depth)
         ELSE IF tokens[i] = <<"!">> THEN BeginsExpression(tokens, i + 1, TRUE, depth)
         ELSE IF tokens[i] = <<"(">> THEN BeginsExpression(tokens, i + 1, TRUE, depth + 1)
         ELSE FALSE
    ELSE IF tokens[i] \in {<<"&">>, <<"|">>} THEN BeginsExpression(tokens, i + 1, TRUE, depth)
    ELSE IF tokens[i] = <<")">> /\ depth > 0
    THEN BeginsExpression(tokens, i + 1, FALSE, depth - 1)
    ELSE FALSE

\* the caller writes one more token, a space between two tokens: any text of up
\* to MaxTokens tokens, and the beginnings of expressions up to
\* MaxExpressionTokens tokens
WriteToken(token) ==
    /\ xpc = "input"
    /\ \/ Len(xtokens) < MaxTokens
       \/ /\ Len(xtokens) < MaxExpressionTokens
          /\ BeginsExpression(Append(xtokens, token), 1, TRUE, 0)
    /\ xtokens' = Append(xtokens, token)
    /\ xexpression' = Join(xtokens', <<" ">>)
    /\ UNCHANGED <<xactive, xpc, xparsed, xevaluated, xstr, xreparsed, xmatched>>
    /\ UNCHANGED notExpressionVars

\* parse_profile_expression(expression) is called and returns or raises
CallParseProfileExpression ==
    /\ xpc = "input"
    /\ xparsed' = ParseProfileExpression(xexpression)
    /\ xpc' = "parsed"
    /\ UNCHANGED <<xtokens, xexpression, xactive, xevaluated, xstr, xreparsed, xmatched>>
    /\ UNCHANGED notExpressionVars

\* evaluate_profile_expression(expression, active_profiles) is called and
\* returns or raises; an expression that does not parse raises before the
\* active profiles are looked at, and is evaluated with the empty list only
CallEvaluateProfileExpression(active_profiles) ==
    /\ xpc = "parsed"
    /\ xparsed.ok \/ active_profiles = <<>>
    /\ xactive' = active_profiles
    /\ xevaluated' = EvaluateProfileExpression(xexpression, active_profiles)
    /\ xpc' = "evaluated"
    /\ UNCHANGED <<xtokens, xexpression, xparsed, xstr, xreparsed, xmatched>>
    /\ UNCHANGED notExpressionVars

\* str(expr) is called on the expression parsed
CallStr ==
    /\ xpc = "parsed"
    /\ xparsed.ok
    /\ xstr' = ExprStr(xparsed.expr)
    /\ xpc' = "printed"
    /\ UNCHANGED <<xtokens, xexpression, xactive, xparsed, xevaluated, xreparsed, xmatched>>
    /\ UNCHANGED notExpressionVars

\* parse_profile_expression(str(expr)) is called and returns or raises
CallParseStr ==
    /\ xpc = "printed"
    /\ xreparsed' = ParseProfileExpression(xstr)
    /\ xpc' = "reparsed"
    /\ UNCHANGED <<xtokens, xexpression, xactive, xparsed, xevaluated, xstr, xmatched>>
    /\ UNCHANGED notExpressionVars

\* matches_profiles(active_profiles) is called on a document whose
\* activation_profile is the text, a text is_simple_profile takes for simple
\* (on any other text it is the call of evaluate_profile_expression above)
CallMatchesProfiles(active_profiles) ==
    /\ xpc = "input"
    /\ IsSimpleProfile(xexpression)
    /\ xactive' = active_profiles
    /\ xmatched' = MatchesProfiles(ConfigDocument(EmptyFn, F_BASE, StrV(xexpression), 0),
                                   active_profiles)
    /\ xpc' = "matched"
    /\ UNCHANGED <<xtokens, xexpression, xparsed, xevaluated, xstr, xreparsed>>
    /\ UNCHANGED notExpressionVars

ExpressionNext ==
    \/ \E token \in ExpressionTokens : WriteToken(token)
    \/ CallParseProfileExpression
    \/ \E active_profiles \in ActiveLists : CallEvaluateProfileExpression(active_profiles)
    \/ CallStr
    \/ CallParseStr
    \/ \E active_profiles \in ActiveLists : CallMatchesProfiles(active_profiles)

SpecExpression == ExpressionInit /\ [][ExpressionNext]_vars

-----------------------------------------------------------------------------
(* Claims about profile expressions. The meaning of an expression is read off
   its tokens by splitting at the operators outside parentheses, the loosest
   operator first and, for left associativity, at its last occurrence *)

\* the number of parentheses open before token i
DepthBefore(tokens, i) ==
    Cardinality({j \in 1..(i - 1) : tokens[j] = <<"(">>})
    - Cardinality({j \in 1..(i - 1) : tokens[j] = <<")">>})

\* the places of the operator outside parentheses
TopLevel(tokens, operator) ==
    {i \in 1..Len(tokens) : tokens[i] = operator /\ DepthBefore(tokens, i) = 0}

\* the tree the tokens stand for, or ok = FALSE if they are no expression
RECURSIVE TreeOf(_)
TreeOf(tokens) ==
    LET ors == TopLevel(tokens, <<"|">>)
        ands == TopLevel(tokens, <<"&">>)
        none == [ok |-> FALSE, expr |-> <<>>]
        split(at, node) ==
            LET left == TreeOf(SubSeq(tokens, 1, at - 1))
                right == TreeOf(SubSeq(tokens, at + 1, Len(tokens)))
            IN IF left.ok /\ right.ok
               THEN [ok |-> TRUE, expr |-> [k |-> node, name |-> <<>>,
                                            left |-> left.expr, right |-> right.expr]]
               ELSE none
    IN IF tokens = <<>> THEN none
       ELSE IF ors # {} THEN split(Greatest(ors), "or")
       ELSE IF ands # {} THEN split(Greatest(ands), "and")
       ELSE IF Head(tokens) = <<"!">>
       THEN LET operand == TreeOf(Tail(tokens))
            IN IF operand.ok
               THEN [ok |-> TRUE, expr |-> [k |-> "not", name |-> <<>>,
                                            left |-> operand.expr, right |-> <<>>]]
               ELSE none
       ELSE IF Len(tokens) = 1
       THEN IF tokens[1] \in ProfileNames
            THEN [ok |-> TRUE, expr |-> [k |-> "name", name |-> tokens[1],
                                         left |-> <<>>, right |-> <<>>]]
            ELSE none
       ELSE IF Head(tokens) = <<"(">> /\ tokens[Len(tokens)] = <<")">>
       THEN TreeOf(SubSeq(tokens, 2, Len(tokens) - 1))
       ELSE none

\* the truth of a tree for a set of active profiles
RECURSIVE Truth(_, _)
Truth(expr, active) ==
    IF expr.k = "name" THEN expr.name \in active
    ELSE IF expr.k = "not" THEN ~Truth(expr.left, active)
    ELSE IF expr.k = "and" THEN Truth(expr.left, active) /\ Truth(expr.right, active)
    ELSE Truth(expr.left, active) \/ Truth(expr.right, active)

C21_StrRoundTrip ==
    xpc = "reparsed" =>
        /\ xreparsed.ok
        /\ \A active \in SUBSET ProfileNames :
              Evaluate(xreparsed.expr, active) = Evaluate(xparsed.expr, active)

\* "( a | b ) & c" is written "((a | b) & c)" and read back as the same tree
C21_Witness ==
    /\ xpc = "reparsed"
    /\ xtokens = <<<<"(">>, PA, <<"|">>, PB, <<")">>, <<"&">>, PC>>
    /\ xstr = <<"(", "(", "a", " ", "|", " ", "b", ")", " ", "&", " ", "c", ")">>
    /\ xreparsed.ok
    /\ xreparsed.expr = AndExpr(OrExpr(ProfileName(PA), ProfileName(PB)), ProfileName(PC))

\* what matches_profiles and the expression engine leave is the same outcome
SameOutcome(fast, engine) ==
    /\ fast.ok = engine.ok
    /\ fast.ok => fast.value = engine.value

\* C26: for every activation string is_simple_profile takes for simple, the
\* membership test of matches_profiles gives, for every list of active
\* profiles, the outcome of parsing and evaluating the string: the same
\* boolean, and an error wherever the parser reports one, embedded whitespace
\* included.
C26_FastPathAgrees ==
    xpc = "matched" =>
        SameOutcome(xmatched, EvaluateProfileExpression(xexpression, xactive))

-----------------------------------------------------------------------------
(* Claims about the passes of resolve_placeholders *)

\* the texts of a tree, wherever they are
RECURSIVE AllTexts(_)
AllTexts(value) ==
    CASE value.t = "str" -> {value.v}
      [] value.t = "map" -> UNION {AllTexts(value.v[k]) : k \in DOMAIN value.v}
      [] value.t = "list" -> UNION {AllTexts(value.v[i]) : i \in 1..Len(value.v)}
      [] OTHER -> {}

\* no text of the tree holds a placeholder
FullyResolved(config) == \A text \in AllTexts(MapV(config)) : FindIter(text) = <<>>

\* C22: resolve_placeholders on a tree that holds no placeholder text returns
\* a tree equal to its input and no warnings; so a second call on the output of
\* a call that resolved everything changes nothing and warns of nothing.
C22_ResolvedTreeUnchanged ==
    ppc = "done" =>
        /\ FullyResolved(pconfig) => (presult = pconfig /\ pwarnings = <<>>)
        /\ FullyResolved(presult) =>
              ResolvePlaceholders(presult, MAX_ITERATIONS, penv_vars, puse_system_env,
                                  pvcap_services_json, pvcap_application_json, penviron)
              = <<presult, <<>>>>

\* a tree of a text and a number has come back as it was, after one pass
C22_Witness ==
    /\ ppc = "done"
    /\ pconfig = Two(KA, StrV(<<"v">>), KB, IntV(7)).v
    /\ presult = pconfig
    /\ pwarnings = <<>>
    /\ piter = 1

\* C23: a placeholder key may index into the lists of the tree: ${items[0]}
\* resolves to the first item of items, ${servers[1].port} to the port of the
\* second item, ${matrix[0][1]} through a list of lists, and an index past the
\* end is a key not found (the default is taken).
C23_SequenceIndexing ==
    ppc = "done" =>
        /\ pconfig = ItemsConfig => presult[KR] = StrV(<<"f", "i", "r", "s", "t">>)
        /\ pconfig = ServersConfig => presult[KR] = StrV(<<"8", "0", "8", "1">>)
        /\ pconfig = MatrixConfig => presult[KR] = StrV(<<"2">>)
        /\ pconfig = PastEndConfig => presult[KR] = StrV(<<"d">>)

-----------------------------------------------------------------------------
(* Claims about the list expand_profiles returns and the cycles it reports *)

\* C24: whenever expand_profiles returns a list, the list holds no profile
\* twice, holds every requested profile and every profile reachable from one
\* through the groups, and nothing else, in the order of first emission: a
\* profile reachable through several groups appears once, where it occurs
\* first in the depth-first walk, and its members are not expanded again.
C24_ExpansionIsASet ==
    eout.kind = "returned" =>
        /\ \A i, j \in 1..Len(eout.value) : i # j => eout.value[i] # eout.value[j]
        /\ SetOf(eout.value) = Reachable(egroups, SetOf(erequested))
        /\ eout.value = FirstOccurrences(PreOrderAll(egroups, erequested))

\* c is a member of both a and b: it is emitted once, after a
C24_Witness ==
    /\ erequested = <<PA, PB>>
    /\ egroups = Pairs2(PA, <<PC>>, PB, <<PC>>)
    /\ eout = [kind |-> "returned", value |-> <<PA, PC, PB>>]

\* C30: expand_profiles raises CircularProfileGroupError if and only if a
\* cycle of the group mapping is reachable from a requested profile, also when
\* a member of the cycle was first reached through another group; a profile
\* merely reached twice (through two groups, or listed twice in the request)
\* raises nothing.
C30_RaisesIffCycle ==
    eout.kind \in {"returned", "raised"} =>
        (eout.kind = "raised" <=> CycleReachable(erequested, egroups))

\* b is first reached through a, then found to be on the cycle b -> c -> b
C30_Witness ==
    /\ erequested = <<PA>>
    /\ egroups = Pairs3(PA, <<PB>>, PB, <<PC>>, PC, <<PB>>)
    /\ eout = [kind |-> "raised", value |-> <<PA, PB, PC, PB>>]

\* the key of a placeholder has a value in a source, looked up in the tree as
\* the passes have left it
Found(key, result) ==
    \/ EnvValueByPrecedence(key, Overrides, puse_system_env, penviron).t = "str"
    \/ /\ PlatformHas(key)
       /\ PlatformValue(key).t # "null"
    \/ NodeAt(MapV(result), Split(key, ".")).t \notin {"absent", "null"}

\* a pass over the tree has a substitution to make: a placeholder of one of its
\* texts has a value in a source, or a default
SubstitutionToMake(result) ==
    \E leaf \in ConfigLeaves(result) :
        \E i \in 1..Len(FindIter(leaf[2])) :
            \/ FindIter(leaf[2])[i].default.t # "null"
            \/ Found(FindIter(leaf[2])[i].key, result)

\* C25: resolve_placeholders always terminates: it makes at most max_iterations
\* passes (10) over the tree for every input, placeholders that refer to
\* themselves or to each other included, and it stops before that at the
\* first pass in which no substitution is made.
C25_PassesBounded ==
    /\ [](piter <= MAX_ITERATIONS)
    /\ [][piter' # piter =>
            /\ piter' = piter + 1
            /\ piter = 0 \/ pchanged
            /\ pchanged' = SubstitutionToMake(presult)]_vars
    /\ [](ppc = "done" => (piter = MAX_ITERATIONS \/ ~pchanged))
    /\ <>(ppc = "done")

\* a placeholder that refers to itself has been substituted in all ten passes
C25_Witness ==
    /\ ppc = "done"
    /\ pconfig = One(KA, Ref(KA)).v
    /\ piter = MAX_ITERATIONS
    /\ pchanged

-----------------------------------------------------------------------------
(* Claims about what resolve_profiles hands to the merge and to the resolution *)

\* resolve_profiles has made its call of resolve_placeholders
ResolutionCalled == ResolverEnded /\ routcome.type # "ProfileExpressionError"

\* C27: placeholder resolution leaves its inputs as they were: after
\* resolve_placeholders has returned, the merged tree is what the merge made,
\* and the sources of the ResolverResult are exactly the sources the merge
\* made, no entry added, removed or changed.
C27_ResolutionLeavesInputs ==
    ResolutionCalled =>
        /\ routcome.ok
        /\ routcome.value.sources = rmerged[2]

\* the merge was made: resolve_profiles is past merge_configs
MergeMade == rpc = "placeholders" \/ ResolutionCalled

\* the document has no activation condition, or its activation expression
\* evaluates to true on the profiles
Applies(doc, profiles) ==
    \/ IsNone(doc.activation_profile)
    \/ LET evaluated == EvaluateProfileExpression(doc.activation_profile.v, profiles)
       IN evaluated.ok /\ evaluated.value

\* the loaded documents that apply, in the order of loading
ApplyingFrom(documents, profiles) == SelectSeq(documents, LAMBDA doc : Applies(doc, profiles))

\* the document is of a base file, of an imported file or of the file of a
\* profile of the list
FromBaseImportOrProfile(doc, profiles, loaded_files) ==
    \/ ProfileOfFile(doc.source_file) = <<>>
    \/ doc.source_file \in loaded_files
    \/ InList(ProfileOfFile(doc.source_file), profiles)

\* C28: every document that enters the merge has no activation condition or an
\* activation expression that is true on the expanded profiles, and is of a base
\* file, an imported file or the file of an expanded profile; a document whose
\* activation is false is not merged, so that neither the merged tree nor the
\* sources have anything of it; the filter keeps the documents in their order
C28_MergedDocumentsApply ==
    MergeMade =>
        LET applicable_docs == GetApplicableDocuments(rloaded.documents, rexpanded_profiles)
        IN /\ \A i \in 1..Len(rsorted_docs) :
                  /\ Applies(rsorted_docs[i], rexpanded_profiles)
                  /\ FromBaseImportOrProfile(rsorted_docs[i], rexpanded_profiles,
                                             rloaded.loaded_files)
           /\ \A i \in 1..Len(rloaded.documents) :
                  ~Applies(rloaded.documents[i], rexpanded_profiles)
                      => ~InList(rloaded.documents[i], rsorted_docs)
           /\ applicable_docs.ok
           /\ applicable_docs.value = ApplyingFrom(rloaded.documents, rexpanded_profiles)
           /\ rsorted_docs = SortDocumentsForMerge(ApplyingFrom(rloaded.documents, rexpanded_profiles),
                                                   rexpanded_profiles, MainDirs(PROJECT),
                                                   TestDirs(PROJECT, rinclude_test))
           /\ rmerged = MergeConfigs(rsorted_docs)

\* the merge of a project with one section of application.yml activated on the
\* requested profile a, one on the other profile b, and the file of a
C28_Witness ==
    /\ MergeMade
    /\ rprofiles = <<PA>>
    /\ \E i \in 1..Len(rloaded.documents) :
           /\ rloaded.documents[i].activation_profile = StrV(PB)
           /\ ~InList(rloaded.documents[i], rsorted_docs)
    /\ \E i \in 1..Len(rsorted_docs) : rsorted_docs[i].activation_profile = StrV(PA)
    /\ \E i \in 1..Len(rsorted_docs) : rsorted_docs[i].source_file = F_A

\* the files of the set with the files that the sections without an activation
\* condition of its files import, and so on
RECURSIVE ImportClosure(_, _, _)
ImportClosure(files, loaded, resource_dirs) ==
    LET imported(file) ==
            LET documents == ParseConfigFile(files, file)
            IN IF ~documents.ok THEN {}
               ELSE UNION {LET import_paths == LoadImports(files, documents.value[i].content.v,
                                                           file, resource_dirs)
                           IN {RealPath(files, import_paths[n][1]) : n \in 1..Len(import_paths)} :
                           i \in {n \in 1..Len(documents.value) :
                                      IsNone(documents.value[n].activation_profile)}}
        more == loaded \cup UNION {imported(file) : file \in loaded}
    IN IF more = loaded THEN loaded ELSE ImportClosure(files, more, resource_dirs)

\* C29: import processing ends for every import graph; when step 1 of
\* resolve_profiles is over, no file has been parsed twice (so no section of a
\* file is twice among the loaded documents), also where files import each
\* other, and the files loaded are base files or files that a chain of imports
\* of sections without an activation condition leads to
C29_ImportedOnce ==
    rpc = "expand" =>
        /\ \A i, j \in 1..Len(rloaded.documents) :
               (/\ i < j
                /\ rloaded.documents[i].document_index = rloaded.documents[j].document_index)
                   => RealPath(rfiles, rloaded.documents[i].source_file)
                          # RealPath(rfiles, rloaded.documents[j].source_file)
        /\ \A file \in rloaded.loaded_files :
               RealPath(rfiles, file)
                   \in ImportClosure(rfiles, SetOf(FindBaseConfigs(rfiles, MAIN_DIR)),
                                     MainDirs(PROJECT))

====
